---- MODULE Spec2Model ----
(***************************************************************************)
(* A model of the continuous-test "write-read-series" tool                 *)
(* (pkg/continuoustest) and of the helpers it uses.                        *)
(*                                                                         *)
(* Time is counted in whole seconds.  The zero time.Time is 0 and every    *)
(* real timestamp is positive.  Durations that the source fixes at hours   *)
(* (the 24h scan window, writeMaxAge, MaxQueryAge) are expressed as a      *)
(* number of write intervals, so that a scan window holds a handful of     *)
(* samples instead of 4320.                                                *)
(*                                                                         *)
(* Sample values are integers counted in units of 1/ValueUnit, and         *)
(* floating point rounding is not modelled.                                *)
(***************************************************************************)
EXTENDS Integers, Sequences, FiniteSets, TLC

(***************************************************************************)
(* Bounds of the model                                                     *)
(***************************************************************************)
\* cfg.NumSeries
NumSeries == 2
\* write intervals per recovery scan window (24h / 20s = 4320 in the source)
WindowSteps == 2
\* cfg.MaxQueryAge in write intervals (7 days by default in the source)
MaxQueryAgeSteps == 5
\* writeMaxAge in write intervals (50 minutes = 150 in the source)
WriteMaxAgeSteps == 1
\* write intervals the wall clock may advance after Init
Horizon == 3
\* retries of one timestamp inside one run that the model follows
MaxRetries == 1
\* longest sample list handed to verifySamplesSum on its own
MaxLen == 3
\* largest maxRetries a retry middleware is built with
MaxTries == 3

(***************************************************************************)
(* Program constants                                                       *)
(***************************************************************************)
writeInterval == 20
\* maxComparisonDelta = 0.001 = 1 / DeltaInv
DeltaInv == 1000
\* one unit of a modelled value is 1/ValueUnit: a hundredth of delta squared
ValueUnit == 100 * DeltaInv * DeltaInv
\* seconds of the sine wave's period (10 minutes)
sinePeriod == 600

writeMaxAge == WriteMaxAgeSteps * writeInterval
scanWindow == WindowSteps * writeInterval
MaxQueryAge == MaxQueryAgeSteps * writeInterval

\* the aligned wall-clock second at which the model's clock starts
T0 == 50 * writeInterval
MaxNow == T0 + Horizon * writeInterval

\* The metric profiles of the model, in the order Init and Run visit them:
\* the float profile and, standing for the four histogram profiles of the
\* source, the float-counter and the float-gauge histogram profile.
typeLabels ==
  <<"float", "histogram_float_counter", "histogram_float_gauge">>

Profiles == 1..Len(typeLabels)

typeLabel(p) == typeLabels[p]

(***************************************************************************)
(* time helpers                                                            *)
(***************************************************************************)
Abs(x) == IF x < 0 THEN -x ELSE x

IsZero(t) == t = 0

minTime(first, second) == IF first > second THEN second ELSE first

maxTime(first, second) == IF first > second THEN first ELSE second

alignTimestampToInterval(ts, interval) == ts - (ts % interval)

(***************************************************************************)
(* generators                                                              *)
(***************************************************************************)
\* sin(2*pi*t/period), by Bhaskara's rational approximation of the sine
generateSineWaveValue(t) ==
  LET phase == t % sinePeriod
      half  == sinePeriod \div 2
      x     == phase % half
      y     == x * (half - x)
      mag   == ((16 * y * 1000) \div (5 * half * half - 4 * y)) * (ValueUnit \div 1000)
  IN  IF phase < half THEN mag ELSE -mag

\* float64(t.Unix()) / 500000, sign-flipped for gauges on even minutes
generateHistogramFloatValue(t, gauge) ==
  LET v == t * (ValueUnit \div 500000)
  IN  IF gauge /\ ((t \div 60) % 2 = 0) THEN -v ELSE v

generateExpHistogramFloatValue(t, gauge) ==
  generateHistogramFloatValue(t, gauge) * 10

\* the generateValue function of profile p
generateValue(p, t) ==
  CASE typeLabel(p) = "float" -> generateSineWaveValue(t)
    [] typeLabel(p) = "histogram_float_counter" -> generateExpHistogramFloatValue(t, FALSE)
    [] OTHER -> generateExpHistogramFloatValue(t, TRUE)

\* generateHistogramIntValue: an int64, the Unix seconds of t or their
\* negative
generateHistogramIntValue(t, gauge) ==
  IF gauge /\ (t \div 60) % 2 = 0 THEN -t ELSE t

generateExpHistogramIntValue(t, gauge) ==
  generateHistogramIntValue(t, gauge) * 10

\* the fields of a histogram the generators set from the value; a float
\* histogram has the value in all four buckets and an integer one in the
\* first, the others being deltas
generatePosIntHistogram(value) ==
  [Sum |-> value * 10, Count |-> value * 4,
   PositiveBuckets |-> <<value, 0, 0, 0>>, NegativeBuckets |-> <<0, 0, 0, 0>>,
   gauge |-> FALSE]

\* generateNegIntHistogram whose Sum has the sign of its argument
generateNegIntHistogramSameSign(value) ==
  [Sum |-> value * 10, Count |-> value * 4,
   PositiveBuckets |-> <<0, 0, 0, 0>>, NegativeBuckets |-> <<value, 0, 0, 0>>,
   gauge |-> FALSE]

generateNegIntHistogram(value) ==
  [Sum |-> value * (-10), Count |-> value * 4,
   PositiveBuckets |-> <<0, 0, 0, 0>>, NegativeBuckets |-> <<value, 0, 0, 0>>,
   gauge |-> FALSE]

generatePosFloatHistogram(value) ==
  [Sum |-> value * 10, Count |-> value * 4,
   PositiveBuckets |-> <<value, value, value, value>>,
   NegativeBuckets |-> <<0, 0, 0, 0>>,
   gauge |-> FALSE]

generateNegFloatHistogram(value) ==
  [Sum |-> value * (-10), Count |-> value * 4,
   PositiveBuckets |-> <<0, 0, 0, 0>>,
   NegativeBuckets |-> <<value, value, value, value>>,
   gauge |-> FALSE]

generateIntHistogram(value, gauge) ==
  LET h == IF value >= 0
           THEN generatePosIntHistogram(value)
           ELSE generateNegIntHistogram(-value)
  IN  [h EXCEPT !.gauge = gauge]

generateFloatHistogram(value, gauge) ==
  LET h == IF value >= 0
           THEN generatePosFloatHistogram(value)
           ELSE generateNegFloatHistogram(-value)
  IN  [h EXCEPT !.gauge = gauge]

\* the type labels of histogramProfiles, in order
histogramTypeLabels ==
  <<"histogram_int_counter", "histogram_float_counter",
    "histogram_int_gauge", "histogram_float_gauge">>

\* generateHistogram of the i-th histogram profile; an integer profile's
\* numbers are whole, a float profile's count units of 1/ValueUnit
generateHistogram(i, t) ==
  CASE i = 1 -> generateIntHistogram(generateHistogramIntValue(t, FALSE), FALSE)
    [] i = 2 -> generateFloatHistogram(generateHistogramFloatValue(t, FALSE), FALSE)
    [] i = 3 -> generateIntHistogram(generateHistogramIntValue(t, TRUE), TRUE)
    [] i = 4 -> generateFloatHistogram(generateHistogramFloatValue(t, TRUE), TRUE)

\* generateValue of the i-th histogram profile
generateHistogramValue(i, t) ==
  CASE i = 1 -> generateExpHistogramIntValue(t, FALSE)
    [] i = 2 -> generateExpHistogramFloatValue(t, FALSE)
    [] i = 3 -> generateExpHistogramIntValue(t, TRUE)
    [] i = 4 -> generateExpHistogramFloatValue(t, TRUE)

(***************************************************************************)
(* verifier                                                                *)
(***************************************************************************)
\* |actual - expected| / delta < delta with delta = 1/DeltaInv, that is
\* |actual - expected| * DeltaInv < ValueUnit / DeltaInv in value units
\* (divided through by DeltaInv to stay inside TLC's 32-bit integers)
compareSampleValuesInclusive(actual, expected) ==
  Abs(actual - expected) <= (ValueUnit \div DeltaInv) \div DeltaInv

compareSampleValues(actual, expected) ==
  Abs(actual - expected) < (ValueUnit \div DeltaInv) \div DeltaInv

\* The backward loop of verifySamplesSum over the floats or the histograms
\* of the single series.  An element is [ts, v, nil]; nil marks a histogram
\* pair whose Histogram pointer is nil.  k is the 1-based position being
\* checked, last the lastMatchingIdx so far (0-based, as in the source), and
\* cmp the number of calls of compareSampleValues made.
RECURSIVE verifyLoop(_, _, _, _, _, _, _)
verifyLoop(elems, k, last, expectedSeries, expectedStep, p, cmp) ==
  IF k = 0
  THEN [idx |-> last, err |-> "", compared |-> cmp]
  ELSE LET e == elems[k]
           expectedValue == generateValue(p, e.ts) * expectedSeries
       IN  IF e.nil
           THEN [idx |-> last, err |-> "nil histogram", compared |-> cmp]
           ELSE IF ~compareSampleValues(e.v, expectedValue)
           THEN [idx |-> last, err |-> "value", compared |-> cmp + 1]
           ELSE IF k < Len(elems) /\ e.ts # elems[k + 1].ts - expectedStep
           THEN [idx |-> last, err |-> "timestamp", compared |-> cmp + 1]
           ELSE verifyLoop(elems, k - 1, k - 1, expectedSeries, expectedStep, p, cmp + 1)

\* verifySamplesSum that expects the write interval between the points
\* whatever step it is given
verifySamplesSumFixedStep(matrix, expectedSeries, expectedStep, p) ==
  IF Len(matrix) # 1
  THEN [idx |-> -1, err |-> "series count", compared |-> 0]
  ELSE LET samples == matrix[1].Values
           histograms == matrix[1].Histograms
           haveSamples == Len(samples) > 0
           haveHistograms == Len(histograms) > 0
       IN  IF haveSamples /\ haveHistograms
           THEN [idx |-> -1, err |-> "both", compared |-> 0]
           ELSE IF ~haveSamples /\ ~haveHistograms
           THEN [idx |-> -1, err |-> "neither", compared |-> 0]
           ELSE IF haveHistograms
           THEN verifyLoop(histograms, Len(histograms), -1, expectedSeries, writeInterval, p, 0)
           ELSE verifyLoop(samples, Len(samples), -1, expectedSeries, writeInterval, p, 0)

\* verifySamplesSum that only refuses an empty result and checks the first
\* series of any other
verifySamplesSumFirstSeries(matrix, expectedSeries, expectedStep, p) ==
  IF Len(matrix) = 0
  THEN [idx |-> -1, err |-> "series count", compared |-> 0]
  ELSE LET samples == matrix[1].Values
           histograms == matrix[1].Histograms
           haveSamples == Len(samples) > 0
           haveHistograms == Len(histograms) > 0
       IN  IF haveSamples /\ haveHistograms
           THEN [idx |-> -1, err |-> "both", compared |-> 0]
           ELSE IF ~haveSamples /\ ~haveHistograms
           THEN [idx |-> -1, err |-> "neither", compared |-> 0]
           ELSE IF haveHistograms
           THEN verifyLoop(histograms, Len(histograms), -1, expectedSeries, expectedStep, p, 0)
           ELSE verifyLoop(samples, Len(samples), -1, expectedSeries, expectedStep, p, 0)

\* matrix is a sequence of series [Values, Histograms]; the result is
\* [idx, err, compared] with err = "" for a nil error
verifySamplesSum(matrix, expectedSeries, expectedStep, p) ==
  IF Len(matrix) # 1
  THEN [idx |-> -1, err |-> "series count", compared |-> 0]
  ELSE LET samples == matrix[1].Values
           histograms == matrix[1].Histograms
           haveSamples == Len(samples) > 0
           haveHistograms == Len(histograms) > 0
       IN  IF haveSamples /\ haveHistograms
           THEN [idx |-> -1, err |-> "both", compared |-> 0]
           ELSE IF ~haveSamples /\ ~haveHistograms
           THEN [idx |-> -1, err |-> "neither", compared |-> 0]
           ELSE IF haveHistograms
           THEN verifyLoop(histograms, Len(histograms), -1, expectedSeries, expectedStep, p, 0)
           ELSE verifyLoop(samples, Len(samples), -1, expectedSeries, expectedStep, p, 0)

(***************************************************************************)
(* state                                                                   *)
(***************************************************************************)
VARIABLES
  enabled,    \* the profiles the configuration enables, in visiting order
  now,        \* the now argument of the Init or Run call in progress
  pc,         \* "recover", "idle", "write", "query"
  cur,        \* the position in enabled of the profile being worked on
  hist,       \* the MetricHistory of every profile
  scan,       \* the locals of findPreviouslyWrittenTimeRange
  ctxDone,    \* the context of the call in progress is cancelled
  errs,       \* the multierror of the Run in progress: <<profile, what>>
  runErr,     \* what the last finished Run returned: its errs
  visited,    \* the profiles whose RunInner the Run in progress has entered
  lastCall,   \* the last WriteSeries call of the RunInner in progress
  retries,    \* calls of the current write loop that left the cursor alone
  okSince,    \* per profile, the timestamps written with success since the
              \* queryable range was last unset
  rejected,   \* per profile, the last timestamp whose write got a 4xx, or 0
  recovered,  \* per profile, the timestamps recoverPast took as verified
  aborted,    \* per profile, the timestamp of the write that failed last
              \* and has not been attempted since, or 0
  vcall,      \* the last call of verifySamplesSum made on its own: its
              \* arguments and its result
  pcall,      \* the last call of getQueryTimeRanges made on its own, in
              \* milliseconds: its arguments, the two draws of randTime and
              \* its result
  qrun,       \* the queries of a RunInner taken on its own, in milliseconds:
              \* its arguments, the plan, the next job, the calls issued
              \* to the client and the errors added to errs
  writeLimiter, \* the rate limiter Run has created: its rate, its burst
              \* and the permits its latest WaitN has granted
  ccall,      \* a call of compareSampleValues made on its own: the two
              \* values and the answer
  rdo,        \* an execution of retry.Do: its inputs, its locals and the
              \* calls of the next handler it has made
  scall,      \* a call of getQueryStep made on its own
  gcall,      \* the last call of a histogram profile's generateHistogram
              \* made on its own: the profile, the time and the histogram
  wloop       \* the write loop of the RunInner in progress: the records it
              \* started from, the WriteSeries calls it has made, and whether
              \* each of them ended in a 2xx without error or in a 4xx

vars ==
  <<enabled, now, pc, cur, hist, scan, ctxDone, errs, runErr, visited,
    lastCall, retries, okSince, rejected, recovered, aborted, vcall, wloop,
    pcall, qrun, gcall, ccall, rdo, scall, writeLimiter>>

\* the profile Init or Run is working on
profile == enabled[cur]

zeroHistory ==
  [lastWrittenTimestamp |-> 0, queryMinTime |-> 0, queryMaxTime |-> 0]

noCall ==
  [first |-> FALSE, p |-> 0, ts |-> 0, status |-> 0, err |-> FALSE,
   ret |-> "", pre |-> zeroHistory, prevAborted |-> 0]

noVerify ==
  [matrix |-> <<>>, step |-> 0, p |-> 0,
   r |-> [idx |-> -1, err |-> "", compared |-> 0]]

\* the histogram of a call that has not returned
pendingHistogram ==
  [Sum |-> 0, Count |-> -1,
   PositiveBuckets |-> <<>>, NegativeBuckets |-> <<>>, gauge |-> FALSE]

\* no call of generateHistogram on its own
noHistogram == [i |-> 0, t |-> 0, h |-> pendingHistogram]

\* no call of compareSampleValues on its own
noCompare == [actual |-> 0, expected |-> 0, done |-> FALSE, equal |-> FALSE]

\* no execution of retry.Do
noRetry ==
  [maxRetries |-> 0, pc |-> "none", tries |-> 0, lastErr |-> "",
   cancelled |-> FALSE, calls |-> <<>>, resp |-> 0, err |-> "", observed |-> -1]

\* no call of getQueryStep on its own
noStep == [start |-> 0, end |-> 0, alignInterval |-> 0, done |-> FALSE, step |-> 0]

\* no limiter: Run has not been called
noLimiter == [limit |-> 0, burst |-> 0, waited |-> 0]

\* rate.NewLimiter(limit, burst)
NewLimiter(limit, burst) == [limit |-> limit, burst |-> burst, waited |-> 0]

\* a WaitN(ctx, n) that returns nil: n permits are granted, after whatever
\* wait the rate asks for; waited keeps the n of the latest such call
WaitN(lim, n) == [lim EXCEPT !.waited = n]

\* no write loop in progress
noLoop == [start |-> zeroHistory, n |-> 0, good |-> TRUE]

\* the write loop of RunInner is entered with the records r
newLoop(r) == [start |-> r, n |-> 0, good |-> TRUE]

\* the locals of findPreviouslyWrittenTimeRange on entry; first, verified and
\* vidx remember the first window's points and the last verified accumulator
newScan(t) ==
  [end |-> alignTimestampToInterval(t, writeInterval),
   samples |-> <<>>, histograms |-> <<>>, from |-> 0, to |-> 0,
   done |-> FALSE, queries |-> 0, why |-> "",
   first |-> <<>>, verified |-> <<>>, vidx |-> -1]

(***************************************************************************)
(* the store's answers to the recovery scan's range queries                *)
(***************************************************************************)
SlotStates == {"absent", "good", "bad"}

\* a value the verifier must reject
BadOffset == 5 * (ValueUnit \div DeltaInv)

\* the points of slots i..n of a window starting at start, oldest first
RECURSIVE windowPoints(_, _, _, _, _)
windowPoints(p, start, i, n, f) ==
  IF i > n
  THEN <<>>
  ELSE LET ts == start + (i - 1) * writeInterval
           v  == generateValue(p, ts) * NumSeries
                 + (IF f[i] = "bad" THEN BadOffset ELSE 0)
           rest == windowPoints(p, start, i + 1, n, f)
       IN  IF f[i] = "absent"
           THEN rest
           ELSE <<[ts |-> ts, v |-> v, nil |-> FALSE]>> \o rest

windowSlots(start, end) == ((end - start) \div writeInterval) + 1

\* the one-series answers of the store for the window [start, end]
storeSeries(p, start, end) ==
  LET n == windowSlots(start, end)
  IN  { [Values |-> IF kind \in {"floats", "both"}
                    THEN windowPoints(p, start, 1, n, f) ELSE <<>>,
         Histograms |-> IF kind \in {"histograms", "both"}
                        THEN windowPoints(p, start, 1, n, f) ELSE <<>>] :
        f \in [1..n -> SlotStates], kind \in {"floats", "histograms", "both"} }

(***************************************************************************)
(* Init: the recovery scan of every profile                                *)
(***************************************************************************)
\* recoverPast with the two query bounds taken from the wrong result
recoverPastSwapped(records, t, from, to) ==
  IF IsZero(from) \/ IsZero(to)
  THEN records
  ELSE IF to < t - writeMaxAge
  THEN records
  ELSE [lastWrittenTimestamp |-> to, queryMinTime |-> to, queryMaxTime |-> from]

\* recoverPast that also gives up a range whose newest point is exactly
\* writeMaxAge old
recoverPastStrict(records, t, from, to) ==
  IF IsZero(from) \/ IsZero(to)
  THEN records
  ELSE IF to <= t - writeMaxAge
  THEN records
  ELSE [lastWrittenTimestamp |-> to, queryMinTime |-> from, queryMaxTime |-> to]

\* recoverPast that leaves queryMaxTime as it was
recoverPastNoMax(records, t, from, to) ==
  IF IsZero(from) \/ IsZero(to)
  THEN records
  ELSE IF to < t - writeMaxAge
  THEN records
  ELSE [lastWrittenTimestamp |-> to, queryMinTime |-> from,
        queryMaxTime |-> records.queryMaxTime]

\* recoverPast, given what findPreviouslyWrittenTimeRange returned
recoverPast(records, t, from, to) ==
  IF IsZero(from) \/ IsZero(to)
  THEN records
  ELSE IF to < t - writeMaxAge
  THEN records
  ELSE [lastWrittenTimestamp |-> to, queryMinTime |-> from, queryMaxTime |-> to]

\* the error recoverPast returns, "" for nil: every path returns nil
recoverPastErr(records, t, from, to) ==
  IF IsZero(from) \/ IsZero(to)
  THEN ""
  ELSE IF to < t - writeMaxAge
  THEN ""
  ELSE ""

\* scanStart that forgets the max query age
scanStartNoAge ==
  alignTimestampToInterval((scan.end - scanWindow) + writeInterval, writeInterval)

\* the start of the window the scan queries next
scanStart ==
  alignTimestampToInterval(
    maxTime(now - MaxQueryAge, (scan.end - scanWindow) + writeInterval),
    writeInterval)

\* the loop of findPreviouslyWrittenTimeRange reaches the max query age
ScanHitMaxAge ==
  /\ pc = "recover" /\ ~scan.done
  /\ ~(scanStart < scan.end)
  /\ scan' = [scan EXCEPT !.done = TRUE, !.why = "max age"]
  /\ UNCHANGED <<writeLimiter, ccall, rdo, scall, gcall, wloop, qrun, pcall, vcall, enabled, now, pc, cur, hist, ctxDone, errs, runErr, visited,
                 lastCall, retries, okSince, rejected, recovered, aborted>>

\* ScanQueryFailed that forgets the range found in the earlier windows
ScanQueryFailedForgets ==
  /\ pc = "recover" /\ ~scan.done
  /\ scanStart < scan.end
  /\ \E why \in {"query error", "no series", "many series"} :
       scan' = [scan EXCEPT !.done = TRUE, !.why = why,
                            !.queries = scan.queries + 1,
                            !.from = 0, !.to = 0]
  /\ UNCHANGED <<writeLimiter, ccall, rdo, scall, gcall, wloop, qrun, pcall, vcall, enabled, now, pc, cur, hist, ctxDone, errs, runErr, visited,
                 lastCall, retries, okSince, rejected, recovered, aborted>>

\* QueryRange fails, or answers with no series or with more than one
ScanQueryFailed ==
  /\ pc = "recover" /\ ~scan.done
  /\ scanStart < scan.end
  /\ \E why \in {"query error", "no series", "many series"} :
       scan' = [scan EXCEPT !.done = TRUE, !.why = why,
                            !.queries = scan.queries + 1]
  /\ UNCHANGED <<writeLimiter, ccall, rdo, scall, gcall, wloop, qrun, pcall, vcall, enabled, now, pc, cur, hist, ctxDone, errs, runErr, visited,
                 lastCall, retries, okSince, rejected, recovered, aborted>>

\* scanSeries that takes the oldest accumulated point as the start of the
\* range, whatever index the verifier returned
scanSeriesOldest(p, sc, start, series) ==
  LET samples == series.Values \o sc.samples
      histograms == series.Histograms \o sc.histograms
      base == [sc EXCEPT !.samples = samples, !.histograms = histograms,
                         !.end = start - writeInterval,
                         !.queries = sc.queries + 1,
                         !.first = IF sc.queries = 0
                                   THEN series.Values \o series.Histograms
                                   ELSE sc.first]
      useHistograms == Len(histograms) > 0 /\ Len(samples) = 0
      useSamples == Len(samples) > 0 /\ Len(histograms) = 0
      full == IF useHistograms THEN histograms ELSE samples
      fullMatrix == IF useHistograms
                    THEN <<[Values |-> <<>>, Histograms |-> histograms]>>
                    ELSE <<[Values |-> samples, Histograms |-> <<>>]>>
      r == verifySamplesSum(fullMatrix, NumSeries, writeInterval, p)
  IN  IF ~useHistograms /\ ~useSamples
      THEN [base EXCEPT !.done = TRUE, !.why = "mixed"]
      ELSE IF r.idx = -1
      THEN [base EXCEPT !.done = TRUE, !.why = "no match"]
      ELSE LET found == [base EXCEPT !.from = full[1].ts,
                                     !.to = full[Len(full)].ts,
                                     !.verified = full, !.vidx = r.idx]
           IN  IF r.idx # 0 \/ full[1].ts # start
               THEN [found EXCEPT !.done = TRUE, !.why = "oldest found"]
               ELSE found

\* the rest of one iteration, given the single series the store answered
scanSeries(p, sc, start, series) ==
  LET samples == series.Values \o sc.samples
      histograms == series.Histograms \o sc.histograms
      base == [sc EXCEPT !.samples = samples, !.histograms = histograms,
                         !.end = start - writeInterval,
                         !.queries = sc.queries + 1,
                         !.first = IF sc.queries = 0
                                   THEN series.Values \o series.Histograms
                                   ELSE sc.first]
      useHistograms == Len(histograms) > 0 /\ Len(samples) = 0
      useSamples == Len(samples) > 0 /\ Len(histograms) = 0
      full == IF useHistograms THEN histograms ELSE samples
      fullMatrix == IF useHistograms
                    THEN <<[Values |-> <<>>, Histograms |-> histograms]>>
                    ELSE <<[Values |-> samples, Histograms |-> <<>>]>>
      r == verifySamplesSum(fullMatrix, NumSeries, writeInterval, p)
  IN  IF ~useHistograms /\ ~useSamples
      THEN [base EXCEPT !.done = TRUE, !.why = "mixed"]
      ELSE IF r.idx = -1
      THEN [base EXCEPT !.done = TRUE, !.why = "no match"]
      ELSE LET found == [base EXCEPT !.from = full[r.idx + 1].ts,
                                     !.to = full[Len(full)].ts,
                                     !.verified = full, !.vidx = r.idx]
           IN  IF r.idx # 0 \/ full[1].ts # start
               THEN [found EXCEPT !.done = TRUE, !.why = "oldest found"]
               ELSE found

\* one iteration of the loop of findPreviouslyWrittenTimeRange
ScanQuery ==
  /\ pc = "recover" /\ ~scan.done
  /\ scanStart < scan.end
  /\ \E series \in storeSeries(profile, scanStart, scan.end) :
       scan' = scanSeries(profile, scan, scanStart, series)
  /\ UNCHANGED <<writeLimiter, ccall, rdo, scall, gcall, wloop, qrun, pcall, vcall, enabled, now, pc, cur, hist, ctxDone, errs, runErr, visited,
                 lastCall, retries, okSince, rejected, recovered, aborted>>

\* the timestamps of the verified accumulator from its matching index on
verifiedTimes(sc) ==
  { sc.verified[i].ts : i \in (sc.vidx + 1)..Len(sc.verified) }

\* recoverPast after the scan returned; Init moves on to the next profile
RecoverPast ==
  /\ pc = "recover" /\ scan.done
  /\ hist' = [hist EXCEPT ![profile] =
                recoverPast(hist[profile], now, scan.from, scan.to)]
  /\ recovered' = [recovered EXCEPT ![profile] =
                     IF hist'[profile] # hist[profile]
                     THEN verifiedTimes(scan) ELSE {}]
  /\ IF cur < Len(enabled)
     THEN /\ cur' = cur + 1
          /\ scan' = newScan(now)
          /\ pc' = pc
     ELSE /\ cur' = 0
          /\ scan' = newScan(0)
          /\ pc' = "idle"
  /\ UNCHANGED <<writeLimiter, ccall, rdo, scall, gcall, wloop, qrun, pcall, vcall, enabled, now, ctxDone, errs, runErr, visited,
                 lastCall, retries, okSince, rejected, aborted>>

(***************************************************************************)
(* Run: the write loop and the queries of every profile                    *)
(***************************************************************************)
\* nextWriteTimestamp that always starts over from now
nextWriteTimestampFromNow(t, records) ==
  alignTimestampToInterval(t, writeInterval)

\* nextWriteTimestamp that starts a history at t as it is
nextWriteTimestampNoAlign(t, records) ==
  IF IsZero(records.lastWrittenTimestamp)
  THEN t
  ELSE records.lastWrittenTimestamp + writeInterval

nextWriteTimestamp(t, records) ==
  IF IsZero(records.lastWrittenTimestamp)
  THEN alignTimestampToInterval(t, writeInterval)
  ELSE records.lastWrittenTimestamp + writeInterval

\* errors.Wrap and errors.Wrapf of github.com/pkg/errors: nil for a nil error.
\* An error is a string, and "" is the nil error.
errorsWrap(err, msg) == IF err = "" THEN "" ELSE msg

\* (statusCode, err) pairs WriteSeries may return; status 0 is a request
\* that got no response
WriteOutcomes ==
  { [status |-> 200, err |-> ""], [status |-> 200, err |-> "transport"],
    [status |-> 400, err |-> ""], [status |-> 400, err |-> "http 400"],
    [status |-> 500, err |-> ""], [status |-> 500, err |-> "http 500"],
    [status |-> 0, err |-> "transport"] }

\* the branches of writeSamples; keepMin, advance4xx and reset4xx are TRUE
\* in the source
writeSamplesWith(records, timestamp, status, err, keepMin, advance4xx, reset4xx) ==
  IF status \div 100 = 4
  THEN [records |-> [lastWrittenTimestamp |->
                       IF advance4xx THEN timestamp
                       ELSE records.lastWrittenTimestamp,
                     queryMinTime |-> IF reset4xx THEN 0 ELSE records.queryMinTime,
                     queryMaxTime |-> IF reset4xx THEN 0 ELSE records.queryMaxTime],
        ret |-> ""]
  ELSE IF err # ""
  THEN [records |-> records,
        ret |-> errorsWrap(err, "failed to remote write series")]
  ELSE IF status \div 100 # 2
  THEN [records |-> records,
        ret |-> errorsWrap(err, "remote write series failed with status code")]
  ELSE [records |-> [lastWrittenTimestamp |-> timestamp,
                     queryMinTime |-> IF keepMin /\ ~IsZero(records.queryMinTime)
                                      THEN records.queryMinTime
                                      ELSE timestamp,
                     queryMaxTime |-> timestamp],
        ret |-> ""]

\* writeSamples that moves queryMinTime on every successful write
writeSamplesResetMin(records, timestamp, status, err) ==
  writeSamplesWith(records, timestamp, status, err, FALSE, TRUE, TRUE)

\* writeSamples that leaves the cursor where it is on a 4xx
writeSamplesStay4xx(records, timestamp, status, err) ==
  writeSamplesWith(records, timestamp, status, err, TRUE, FALSE, TRUE)

\* writeSamples that keeps the queryable range over a 4xx
writeSamplesKeepRange(records, timestamp, status, err) ==
  writeSamplesWith(records, timestamp, status, err, TRUE, TRUE, FALSE)

\* writeSamples after WriteSeries returned (status, err): the new records
\* and the error returned
writeSamples(records, timestamp, status, err) ==
  IF status \div 100 = 4
  THEN [records |-> [lastWrittenTimestamp |-> timestamp,
                     queryMinTime |-> 0, queryMaxTime |-> 0],
        ret |-> ""]
  ELSE IF err # ""
  THEN [records |-> records,
        ret |-> errorsWrap(err, "failed to remote write series")]
  ELSE IF status \div 100 # 2
  THEN [records |-> records,
        ret |-> errorsWrap(err, "remote write series failed with status code")]
  ELSE [records |-> [lastWrittenTimestamp |-> timestamp,
                     queryMinTime |-> IF IsZero(records.queryMinTime)
                                      THEN timestamp
                                      ELSE records.queryMinTime,
                     queryMaxTime |-> timestamp],
        ret |-> ""]

\* advances of the wall clock between two calls of Run
NowSteps == {0, writeInterval \div 2, writeInterval, 2 * writeInterval}

\* Run is called with a now that is not before the previous one
StartRun ==
  /\ pc = "idle"
  /\ \E d \in NowSteps : now + d <= MaxNow /\ now' = now + d
  /\ pc' = "write" /\ cur' = 1
  /\ errs' = {} /\ runErr' = {}
  /\ ctxDone' = FALSE
  /\ lastCall' = noCall /\ retries' = 0
  /\ visited' = {enabled[1]}
  /\ wloop' = newLoop(hist[enabled[1]])
  /\ writeLimiter' = NewLimiter(NumSeries, NumSeries)
  /\ UNCHANGED <<ccall, rdo, scall, gcall, qrun, pcall, vcall, enabled, hist, scan, okSince, rejected, recovered, aborted>>

\* the context of the Run in progress is cancelled
Cancel ==
  /\ pc \in {"write", "query"} /\ ~ctxDone
  /\ ctxDone' = TRUE
  /\ UNCHANGED <<writeLimiter, ccall, rdo, scall, gcall, wloop, qrun, pcall, vcall, enabled, now, pc, cur, hist, scan, errs, runErr, visited,
                 lastCall, retries, okSince, rejected, recovered, aborted>>

\* Run that returns at the first profile that left an error
leaveProfileStopOnError(es) ==
  /\ errs' = es
  /\ retries' = 0
  /\ lastCall' = noCall
  /\ IF cur < Len(enabled) /\ es = {}
     THEN /\ cur' = cur + 1 /\ pc' = "write" /\ runErr' = runErr
          /\ visited' = visited \cup {enabled[cur + 1]}
          /\ wloop' = newLoop(hist[enabled[cur + 1]])
          /\ writeLimiter' = writeLimiter
     ELSE /\ cur' = 0 /\ pc' = "idle" /\ runErr' = es
          /\ visited' = visited
          /\ wloop' = noLoop
          /\ writeLimiter' = noLimiter

\* RunInner returned for the current profile: Run goes to the next one, or
\* returns errs.Err()
leaveProfile(es) ==
  /\ errs' = es
  /\ retries' = 0
  /\ lastCall' = noCall
  /\ IF cur < Len(enabled)
     THEN /\ cur' = cur + 1 /\ pc' = "write" /\ runErr' = runErr
          /\ visited' = visited \cup {enabled[cur + 1]}
          /\ wloop' = newLoop(hist[enabled[cur + 1]])
          /\ writeLimiter' = writeLimiter
     ELSE /\ cur' = 0 /\ pc' = "idle" /\ runErr' = es
          /\ visited' = visited
          /\ wloop' = noLoop
          /\ writeLimiter' = noLimiter

\* a write loop that runs only while the next timestamp is before now
WriteLoopDoneStrict ==
  /\ pc = "write"
  /\ nextWriteTimestamp(now, hist[profile]) >= now
  /\ pc' = "query"
  /\ UNCHANGED <<writeLimiter, ccall, rdo, scall, gcall, wloop, qrun, pcall, vcall, enabled, now, cur, hist, scan, ctxDone, errs, runErr, visited,
                 lastCall, retries, okSince, rejected, recovered, aborted>>

\* the write loop ends: the next timestamp is after now
WriteLoopDone ==
  /\ pc = "write"
  /\ nextWriteTimestamp(now, hist[profile]) > now
  /\ pc' = "query"
  /\ UNCHANGED <<writeLimiter, ccall, rdo, scall, gcall, wloop, qrun, pcall, vcall, enabled, now, cur, hist, scan, ctxDone, errs, runErr, visited,
                 lastCall, retries, okSince, rejected, recovered, aborted>>

\* a failed WaitN after which RunInner goes on to its queries
WaitCancelledThenQueries ==
  /\ pc = "write"
  /\ nextWriteTimestamp(now, hist[profile]) <= now
  /\ ctxDone
  /\ errs' = errs \cup {<<profile, "context">>}
  /\ pc' = "query"
  /\ UNCHANGED <<writeLimiter, ccall, rdo, scall, gcall, wloop, qrun, pcall,
                 vcall, enabled, now, cur, hist, scan, ctxDone, runErr, visited,
                 lastCall, retries, okSince, rejected, recovered, aborted>>

\* writeLimiter.WaitN fails because the context is cancelled: RunInner returns
WaitCancelled ==
  /\ pc = "write"
  /\ nextWriteTimestamp(now, hist[profile]) <= now
  /\ ctxDone
  /\ leaveProfile(errs \cup {<<profile, "context">>})
  /\ UNCHANGED <<ccall, rdo, scall, gcall, qrun, pcall, vcall, enabled, now, hist, scan, ctxDone,
                 okSince, rejected, recovered, aborted>>

\* one iteration of the write loop: WaitN, generateSeries, writeSamples
WriteCall ==
  /\ pc = "write"
  /\ ~ctxDone
  /\ LET timestamp == nextWriteTimestamp(now, hist[profile]) IN
     /\ timestamp <= now
     /\ \E o \in WriteOutcomes :
          LET w == writeSamples(hist[profile], timestamp, o.status, o.err)
              stuck == w.ret = "" /\ w.records = hist[profile]
          IN  /\ stuck => retries < MaxRetries
              /\ hist' = [hist EXCEPT ![profile] = w.records]
              /\ lastCall' = [first |-> lastCall.p = 0,
                              p |-> profile, ts |-> timestamp,
                              status |-> o.status, err |-> o.err # "",
                              ret |-> w.ret, pre |-> hist[profile],
                              prevAborted |-> aborted[profile]]
              /\ retries' = IF stuck THEN retries + 1 ELSE 0
              /\ wloop' = [wloop EXCEPT
                             !.n = @ + 1,
                             !.good = @ /\ (o.status \div 100 = 4
                                            \/ (o.status \div 100 = 2 /\ o.err = ""))]
              /\ okSince' =
                   [okSince EXCEPT ![profile] =
                      IF IsZero(w.records.queryMinTime) THEN {}
                      ELSE IF o.status \div 100 = 2 /\ o.err = ""
                      THEN @ \cup {timestamp}
                      ELSE @]
              /\ rejected' = IF o.status \div 100 = 4
                             THEN [rejected EXCEPT ![profile] = timestamp]
                             ELSE rejected
              /\ aborted' = [aborted EXCEPT ![profile] =
                               IF w.ret # "" THEN timestamp ELSE 0]
              /\ IF w.ret # ""
                 THEN errs' = errs \cup {<<profile, "write">>} /\ pc' = "query"
                 ELSE errs' = errs /\ pc' = "write"
  /\ writeLimiter' = WaitN(writeLimiter, NumSeries)
  /\ UNCHANGED <<ccall, rdo, scall, gcall, qrun, pcall, vcall, enabled, now, cur, scan, ctxDone, runErr, visited, recovered>>

\* the error getQueryTimeRanges returns, "" for none
getQueryTimeRangesErr(t, records) ==
  IF IsZero(records.queryMinTime) \/ IsZero(records.queryMaxTime)
  THEN "no valid time range to query"
  ELSE IF records.queryMaxTime < maxTime(records.queryMinTime, t - MaxQueryAge)
  THEN "no valid time range to query after honoring configured max query age"
  ELSE ""

\* what may go wrong with the queries of one profile
QueryFailures == {"query failed", "result check failed"}

\* the queries of RunInner: each failure is added to errs, and none of them
\* touches the records
QueryPhase ==
  /\ pc = "query"
  /\ \E failed \in SUBSET QueryFailures :
       LET planErr == getQueryTimeRangesErr(now, hist[profile]) IN
       /\ planErr # "" => failed = {}
       /\ leaveProfile(IF planErr # ""
                       THEN errs \cup {<<profile, "no valid time range">>}
                       ELSE errs \cup {<<profile, f>> : f \in failed})
  /\ UNCHANGED <<ccall, rdo, scall, gcall, qrun, pcall, vcall, enabled, now, hist, scan, ctxDone,
                 okSince, rejected, recovered, aborted>>

(***************************************************************************)
(* getQueryTimeRanges, with times in milliseconds                          *)
(***************************************************************************)
\* time.Second, in milliseconds
Second == 1000

Minute == 60 * Second
Hour == 60 * Minute

\* Time.Unix(): the whole seconds of a time
Unix(t) == t \div Second

\* randTime, r being what rand.Int63n draws when it is asked for a number
\* below delta
randTime(min, max, r) ==
  LET delta == Unix(max) - Unix(min)
  IN  IF delta <= 0 THEN min ELSE ((r % delta) + Unix(min)) * Second

\* getQueryTimeRanges that does not honor the max query age
getQueryTimeRangesNoAge(t, records, maxQueryAge, r1, r2) ==
  IF IsZero(records.queryMinTime) \/ IsZero(records.queryMaxTime)
  THEN [ranges |-> <<>>, instants |-> <<>>,
        err |-> "no valid time range to query"]
  ELSE [ranges |-> << <<records.queryMinTime, records.queryMaxTime>> >>,
        instants |-> <<records.queryMinTime>>,
        err |-> ""]

\* getQueryTimeRanges that leaves the last 24h out whenever it emits the
\* last 1h
getQueryTimeRangesCollapsed(t, records, maxQueryAge, r1, r2) ==
  LET adjustedQueryMinTime == maxTime(records.queryMinTime, t - maxQueryAge)
      last1h  == records.queryMaxTime > t - Hour
      last24h == /\ records.queryMaxTime > t - 24 * Hour
                 /\ adjustedQueryMinTime < t - Hour
                 /\ ~(records.queryMaxTime > t - Hour)
      edge23h == /\ adjustedQueryMinTime < t - 23 * Hour
                 /\ records.queryMaxTime > t - 23 * Hour
      randMinTime == randTime(adjustedQueryMinTime, records.queryMaxTime, r1)
  IN  IF IsZero(records.queryMinTime) \/ IsZero(records.queryMaxTime)
      THEN [ranges |-> <<>>, instants |-> <<>>,
            err |-> "no valid time range to query"]
      ELSE IF records.queryMaxTime < adjustedQueryMinTime
      THEN [ranges |-> <<>>, instants |-> <<>>,
            err |-> "no valid time range to query after honoring configured max query age"]
      ELSE [ranges |->
              (IF last1h
               THEN << <<maxTime(adjustedQueryMinTime, t - Hour),
                         minTime(records.queryMaxTime, t)>> >>
               ELSE <<>>)
              \o (IF last24h
                  THEN << <<maxTime(adjustedQueryMinTime, t - 24 * Hour),
                            minTime(records.queryMaxTime, t)>> >>
                  ELSE <<>>)
              \o (IF edge23h
                  THEN << <<maxTime(adjustedQueryMinTime, t - 24 * Hour),
                            minTime(records.queryMaxTime, t - 23 * Hour)>> >>
                  ELSE <<>>)
              \o << <<randMinTime,
                       randTime(randMinTime, records.queryMaxTime, r2)>> >>,
            instants |->
              (IF last1h THEN <<minTime(records.queryMaxTime, t)>> ELSE <<>>)
              \o (IF last24h
                  THEN <<maxTime(adjustedQueryMinTime, t - 24 * Hour)>>
                  ELSE <<>>)
              \o <<randMinTime>>,
            err |-> ""]

\* getQueryTimeRanges that pairs the last 24h range with its end instant
getQueryTimeRangesEndInstant(t, records, maxQueryAge, r1, r2) ==
  LET adjustedQueryMinTime == maxTime(records.queryMinTime, t - maxQueryAge)
      last1h  == records.queryMaxTime > t - Hour
      last24h == /\ records.queryMaxTime > t - 24 * Hour
                 /\ adjustedQueryMinTime < t - Hour
      edge23h == /\ adjustedQueryMinTime < t - 23 * Hour
                 /\ records.queryMaxTime > t - 23 * Hour
      randMinTime == randTime(adjustedQueryMinTime, records.queryMaxTime, r1)
  IN  IF IsZero(records.queryMinTime) \/ IsZero(records.queryMaxTime)
      THEN [ranges |-> <<>>, instants |-> <<>>,
            err |-> "no valid time range to query"]
      ELSE IF records.queryMaxTime < adjustedQueryMinTime
      THEN [ranges |-> <<>>, instants |-> <<>>,
            err |-> "no valid time range to query after honoring configured max query age"]
      ELSE [ranges |->
              (IF last1h
               THEN << <<maxTime(adjustedQueryMinTime, t - Hour),
                         minTime(records.queryMaxTime, t)>> >>
               ELSE <<>>)
              \o (IF last24h
                  THEN << <<maxTime(adjustedQueryMinTime, t - 24 * Hour),
                            minTime(records.queryMaxTime, t)>> >>
                  ELSE <<>>)
              \o (IF edge23h
                  THEN << <<maxTime(adjustedQueryMinTime, t - 24 * Hour),
                            minTime(records.queryMaxTime, t - 23 * Hour)>> >>
                  ELSE <<>>)
              \o << <<randMinTime,
                       randTime(randMinTime, records.queryMaxTime, r2)>> >>,
            instants |->
              (IF last1h THEN <<minTime(records.queryMaxTime, t)>> ELSE <<>>)
              \o (IF last24h
                  THEN <<minTime(records.queryMaxTime, t)>>
                  ELSE <<>>)
              \o <<randMinTime>>,
            err |-> ""]

\* getQueryTimeRanges for the records, at time t with the configured max
\* query age; r1 and r2 are the two draws of randTime
getQueryTimeRanges(t, records, maxQueryAge, r1, r2) ==
  LET adjustedQueryMinTime == maxTime(records.queryMinTime, t - maxQueryAge)
      last1h  == records.queryMaxTime > t - Hour
      last24h == /\ records.queryMaxTime > t - 24 * Hour
                 /\ adjustedQueryMinTime < t - Hour
      edge23h == /\ adjustedQueryMinTime < t - 23 * Hour
                 /\ records.queryMaxTime > t - 23 * Hour
      randMinTime == randTime(adjustedQueryMinTime, records.queryMaxTime, r1)
  IN  IF IsZero(records.queryMinTime) \/ IsZero(records.queryMaxTime)
      THEN [ranges |-> <<>>, instants |-> <<>>,
            err |-> "no valid time range to query"]
      ELSE IF records.queryMaxTime < adjustedQueryMinTime
      THEN [ranges |-> <<>>, instants |-> <<>>,
            err |-> "no valid time range to query after honoring configured max query age"]
      ELSE [ranges |->
              (IF last1h
               THEN << <<maxTime(adjustedQueryMinTime, t - Hour),
                         minTime(records.queryMaxTime, t)>> >>
               ELSE <<>>)
              \o (IF last24h
                  THEN << <<maxTime(adjustedQueryMinTime, t - 24 * Hour),
                            minTime(records.queryMaxTime, t)>> >>
                  ELSE <<>>)
              \o (IF edge23h
                  THEN << <<maxTime(adjustedQueryMinTime, t - 24 * Hour),
                            minTime(records.queryMaxTime, t - 23 * Hour)>> >>
                  ELSE <<>>)
              \o << <<randMinTime,
                       randTime(randMinTime, records.queryMaxTime, r2)>> >>,
            instants |->
              (IF last1h THEN <<minTime(records.queryMaxTime, t)>> ELSE <<>>)
              \o (IF last24h
                  THEN <<maxTime(adjustedQueryMinTime, t - 24 * Hour)>>
                  ELSE <<>>)
              \o <<randMinTime>>,
            err |-> ""]

\* the result of a call that has not returned
pendingPlan == [ranges |-> <<>>, instants |-> <<>>, err |-> "pending"]

\* no call of getQueryTimeRanges on its own
noPlan ==
  [now |-> 0, records |-> zeroHistory, maxQueryAge |-> 0, r1 |-> 0, r2 |-> 0,
   res |-> pendingPlan]

\* no RunInner taken on its own
noQueries ==
  [now |-> 0, records |-> zeroHistory, maxQueryAge |-> 0,
   plan |-> pendingPlan, i |-> 0, issued |-> <<>>, errs |-> <<>>]

(***************************************************************************)
(* the tool: Init once, then Run again and again                           *)
(***************************************************************************)
\* the wall clock when Init is called
NowInit == {T0, T0 + writeInterval \div 2}

\* the state on entry to Init, for a configuration cfg of enabled profiles
InitWith(cfg) ==
  /\ enabled = cfg
  /\ now \in NowInit
  /\ pc = "recover" /\ cur = 1
  /\ hist = [p \in Profiles |-> zeroHistory]
  /\ scan = newScan(now)
  /\ ctxDone = FALSE
  /\ errs = {} /\ runErr = {}
  /\ lastCall = noCall /\ visited = {}
  /\ retries = 0
  /\ okSince = [p \in Profiles |-> {}]
  /\ rejected = [p \in Profiles |-> 0]
  /\ recovered = [p \in Profiles |-> {}]
  /\ aborted = [p \in Profiles |-> 0]
  /\ vcall = noVerify
  /\ wloop = noLoop
  /\ writeLimiter = noLimiter
  /\ ccall = noCompare /\ rdo = noRetry /\ scall = noStep
  /\ gcall = noHistogram
  /\ pcall = noPlan
  /\ qrun = noQueries

\* one profile enabled: every profile is recovered, written and queried on
\* its own records, so one profile shows all a profile can do
Init == \E p \in Profiles : InitWith(<<p>>)

Next ==
  \/ ScanHitMaxAge
  \/ ScanQueryFailed
  \/ ScanQuery
  \/ RecoverPast
  \/ StartRun
  \/ Cancel
  \/ WriteLoopDone
  \/ WaitCancelled
  \/ WriteCall
  \/ QueryPhase

Spec == Init /\ [][Next]_vars

\* the loop of findPreviouslyWrittenTimeRange runs on until it returns
SpecScan ==
  Init /\ [][Next]_vars
       /\ WF_vars(ScanHitMaxAge \/ ScanQueryFailed \/ ScanQuery)

\* Both the float and a histogram profile enabled, on a store that held
\* nothing when Init ran: the state when Init has returned
InitAll ==
  /\ enabled = <<1, 2>>
  /\ now \in NowInit
  /\ pc = "idle" /\ cur = 0
  /\ hist = [p \in Profiles |-> zeroHistory]
  /\ scan = newScan(0)
  /\ ctxDone = FALSE
  /\ errs = {} /\ runErr = {}
  /\ lastCall = noCall /\ visited = {}
  /\ retries = 0
  /\ okSince = [p \in Profiles |-> {}]
  /\ rejected = [p \in Profiles |-> 0]
  /\ recovered = [p \in Profiles |-> {}]
  /\ aborted = [p \in Profiles |-> 0]
  /\ vcall = noVerify
  /\ wloop = noLoop
  /\ writeLimiter = noLimiter
  /\ ccall = noCompare /\ rdo = noRetry /\ scall = noStep
  /\ gcall = noHistogram
  /\ pcall = noPlan
  /\ qrun = noQueries

NextRun ==
  \/ StartRun
  \/ Cancel
  \/ WriteLoopDone
  \/ WaitCancelled
  \/ WriteCall
  \/ QueryPhase

SpecAll == InitAll /\ [][NextRun]_vars

(***************************************************************************)
(* verifySamplesSum on its own, over bounded query results                 *)
(***************************************************************************)
\* timestamps a result may carry
VerifyTimes == { T0 + k * writeInterval : k \in 0..3 }

\* how far a returned value is from the expected one, in value units: the
\* tolerance is 100 units
VerifyOffsets == {0, 99, -100}

\* steps verifySamplesSum is called with
VerifySteps == {0, writeInterval, 2 * writeInterval}

\* the lists of at most MaxLen points, each at a time of VerifyTimes and a
\* value an offset of VerifyOffsets away from the expected value of profile p
RECURSIVE pointLists(_, _)
pointLists(p, n) ==
  IF n = 0
  THEN {<<>>}
  ELSE LET shorter == pointLists(p, n - 1)
       IN  shorter \cup
           { <<[ts |-> t, v |-> generateValue(p, t) * NumSeries + d, nil |-> FALSE]>> \o l :
               t \in VerifyTimes, d \in VerifyOffsets,
               l \in { x \in shorter : Len(x) = n - 1 } }

\* a histogram list with the histogram pointer at position k nil
withNil(l, k) ==
  [i \in 1..Len(l) |-> IF i = k THEN [l[i] EXCEPT !.nil = TRUE] ELSE l[i]]

\* the results over the point lists: one series of floats or of histograms
\* and, over the short lists, a nil histogram, both kinds in one series,
\* neither, no series and two series
verifyMatrices(p) ==
  LET lists == pointLists(p, MaxLen)
      short == { l \in lists : Len(l) <= 2 }
      plain == { [Values |-> l, Histograms |-> <<>>] : l \in lists }
               \cup { [Values |-> <<>>, Histograms |-> l] : l \in lists }
      odd   == { [Values |-> l, Histograms |-> l] : l \in short }
               \cup UNION { { [Values |-> <<>>, Histograms |-> withNil(l, k)] :
                                k \in 1..Len(l) } : l \in short }
  IN  {<<>>} \cup { <<x>> : x \in plain \cup odd }
      \cup { <<x, x>> : x \in { y \in plain : Len(y.Values) \in 1..2 } }

\* the result of a call that has not returned
pending == [idx |-> -1, err |-> "pending", compared |-> 0]

\* verifySamplesSum returns
VerifyCall ==
  /\ vcall.r = pending
  /\ vcall' = [vcall EXCEPT !.r =
                 verifySamplesSum(vcall.matrix, NumSeries, vcall.step, vcall.p)]
  /\ UNCHANGED <<writeLimiter, ccall, rdo, scall, gcall, qrun, pcall, wloop, enabled, now, pc, cur, hist, scan, ctxDone, errs, runErr,
                 visited, lastCall, retries, okSince, rejected, recovered,
                 aborted>>

\* verifySamplesSum is called on some result
InitVerify ==
  /\ enabled = <<1>>
  /\ now = T0
  /\ pc = "idle" /\ cur = 0
  /\ hist = [p \in Profiles |-> zeroHistory]
  /\ scan = newScan(0)
  /\ ctxDone = FALSE
  /\ errs = {} /\ runErr = {}
  /\ lastCall = noCall /\ visited = {}
  /\ retries = 0
  /\ okSince = [p \in Profiles |-> {}]
  /\ rejected = [p \in Profiles |-> 0]
  /\ recovered = [p \in Profiles |-> {}]
  /\ aborted = [p \in Profiles |-> 0]
  /\ wloop = noLoop
  /\ writeLimiter = noLimiter
  /\ ccall = noCompare /\ rdo = noRetry /\ scall = noStep
  /\ gcall = noHistogram
  /\ pcall = noPlan
  /\ qrun = noQueries
  /\ \E p \in Profiles, step \in VerifySteps :
       \E matrix \in verifyMatrices(p) :
         vcall = [matrix |-> matrix, step |-> step, p |-> p, r |-> pending]

NextVerify == VerifyCall

SpecVerify == InitVerify /\ [][NextVerify]_vars

(***************************************************************************)
(* getQueryTimeRanges on its own, over bounded records                     *)
(***************************************************************************)
\* an aligned time of day ten days after the epoch
PlanBase == 10 * 24 * Hour

\* the now of the Run: on a whole write interval, and half a second later
PlanNow == {PlanBase, PlanBase + Second \div 2}

\* configured max query ages
PlanAges == {30 * Minute, 2 * Hour, 7 * 24 * Hour}

\* how long before PlanBase the bounds of the queryable range lie
PlanOffsets ==
  {0, writeInterval * Second, 5 * Minute, 30 * Minute, Hour,
   Hour + writeInterval * Second, 2 * Hour, 23 * Hour,
   23 * Hour + writeInterval * Second, 24 * Hour,
   24 * Hour + writeInterval * Second, 8 * 24 * Hour}

\* the records the planner may find: nothing to query, or an aligned range
\* that ends at the write cursor
PlanRecords ==
  {zeroHistory}
  \cup { [lastWrittenTimestamp |-> PlanBase - ab[2],
          queryMinTime |-> PlanBase - ab[1],
          queryMaxTime |-> PlanBase - ab[2]] :
            ab \in { x \in PlanOffsets \X PlanOffsets : x[2] <= x[1] } }

\* what rand.Int63n may draw
PlanDraws == {0, 1, 299, 3600}

\* getQueryTimeRanges returns
PlanCall ==
  /\ pcall.res = pendingPlan /\ pcall.now # 0
  /\ pcall' = [pcall EXCEPT !.res =
                 getQueryTimeRanges(pcall.now, pcall.records, pcall.maxQueryAge,
                                    pcall.r1, pcall.r2)]
  /\ UNCHANGED <<writeLimiter, ccall, rdo, scall, gcall, qrun, wloop, vcall, enabled, now, pc, cur, hist, scan, ctxDone, errs,
                 runErr, visited, lastCall, retries, okSince, rejected,
                 recovered, aborted>>

\* getQueryTimeRanges is called on some records
InitPlan ==
  /\ enabled = <<1>>
  /\ now = T0
  /\ pc = "idle" /\ cur = 0
  /\ hist = [p \in Profiles |-> zeroHistory]
  /\ scan = newScan(0)
  /\ ctxDone = FALSE
  /\ errs = {} /\ runErr = {}
  /\ lastCall = noCall /\ visited = {}
  /\ retries = 0
  /\ okSince = [p \in Profiles |-> {}]
  /\ rejected = [p \in Profiles |-> 0]
  /\ recovered = [p \in Profiles |-> {}]
  /\ aborted = [p \in Profiles |-> 0]
  /\ vcall = noVerify
  /\ wloop = noLoop
  /\ writeLimiter = noLimiter
  /\ ccall = noCompare /\ rdo = noRetry /\ scall = noStep
  /\ gcall = noHistogram
  /\ qrun = noQueries
  /\ \E t \in PlanNow, records \in PlanRecords, age \in PlanAges :
       \E r1 \in PlanDraws, r2 \in PlanDraws :
         pcall = [now |-> t, records |-> records, maxQueryAge |-> age,
                  r1 |-> r1, r2 |-> r2, res |-> pendingPlan]

NextPlan == PlanCall

SpecPlan == InitPlan /\ [][NextPlan]_vars

(***************************************************************************)
(* the queries of RunInner on their own, over bounded records              *)
(***************************************************************************)
\* failed queries and failed result checks in one RunInner
MaxFailures == 2

\* getQueryStep that rounds the step down to the interval
getQueryStepRoundedDown(start, end, alignInterval) ==
  LET actualSamples == (end - start) \div alignInterval
      step == (end - start) \div 1000
  IN  IF actualSamples <= 1000
      THEN alignInterval
      ELSE (step \div alignInterval) * alignInterval

\* getQueryStep, durations in milliseconds
getQueryStep(start, end, alignInterval) ==
  LET actualSamples == (end - start) \div alignInterval
      step == (end - start) \div 1000
  IN  IF actualSamples <= 1000
      THEN alignInterval
      ELSE ((step \div alignInterval) + 1) * alignInterval

\* the jobs of the two loops of RunInner over a plan, in order: every range
\* and then every instant, each with the results cache enabled and then
\* disabled
RECURSIVE twice(_, _, _)
twice(kind, l, i) ==
  IF i > Len(l)
  THEN <<>>
  ELSE <<[kind |-> kind, of |-> i, arg |-> l[i], cache |-> TRUE],
         [kind |-> kind, of |-> i, arg |-> l[i], cache |-> FALSE]>>
       \o twice(kind, l, i + 1)

queryJobs(plan) ==
  twice("range", plan.ranges, 1) \o twice("instant", plan.instants, 1)

\* the call runRangeQueryAndVerifyResult or runInstantQueryAndVerifyResult
\* makes to the client for a job; skip when it returns before the call
clientCall(records, job) ==
  IF job.kind = "range"
  THEN LET start == maxTime(records.queryMinTime,
                            alignTimestampToInterval(job.arg[1], writeInterval * Second))
           end == minTime(records.queryMaxTime,
                          alignTimestampToInterval(job.arg[2], writeInterval * Second))
       IN  [kind |-> "range", of |-> job.of, skip |-> end < start,
            start |-> start, end |-> end,
            step |-> getQueryStep(start, end, writeInterval * Second),
            cache |-> job.cache]
  ELSE LET ts == maxTime(records.queryMinTime,
                         alignTimestampToInterval(job.arg, writeInterval * Second))
       IN  [kind |-> "instant", of |-> job.of,
            skip |-> records.queryMaxTime < ts,
            start |-> ts, end |-> ts, step |-> 0, cache |-> job.cache]

\* how a query that was issued may end
QueryOutcomes ==
  {"", "failed to execute query", "query result check failed"}

\* RunInner, past its write loop, calls getQueryTimeRanges
QueryPlanned ==
  /\ qrun.now # 0 /\ qrun.i = 0
  /\ \E r1 \in PlanDraws, r2 \in PlanDraws :
       LET plan == getQueryTimeRanges(qrun.now, qrun.records, qrun.maxQueryAge,
                                      r1, r2)
       IN  qrun' = [qrun EXCEPT
                      !.plan = plan, !.i = 1,
                      !.errs = IF plan.err # "" THEN <<<<0, plan.err>>>> ELSE <<>>]
  /\ UNCHANGED <<writeLimiter, ccall, rdo, scall, gcall, pcall, wloop, vcall, enabled, now, pc, cur, hist, scan, ctxDone,
                 errs, runErr, visited, lastCall, retries, okSince, rejected,
                 recovered, aborted>>

\* a query loop that ends at the first failure
QueryJobStops ==
  /\ qrun.i >= 1 /\ qrun.i <= Len(queryJobs(qrun.plan))
  /\ LET c == clientCall(qrun.records, queryJobs(qrun.plan)[qrun.i])
     IN  IF c.skip
         THEN qrun' = [qrun EXCEPT !.i = @ + 1]
         ELSE \E out \in QueryOutcomes :
                /\ out # "" => Len(qrun.errs) < MaxFailures
                /\ qrun' = [qrun EXCEPT
                              !.i = IF out = "" THEN @ + 1
                                    ELSE Len(queryJobs(qrun.plan)) + 1,
                              !.issued = Append(@, [call |-> c, out |-> out]),
                              !.errs = IF out = "" THEN @
                                       ELSE Append(@, <<qrun.i, out>>)]
  /\ UNCHANGED <<writeLimiter, ccall, rdo, scall, gcall, pcall, wloop, vcall, enabled, now, pc, cur, hist, scan, ctxDone,
                 errs, runErr, visited, lastCall, retries, okSince, rejected,
                 recovered, aborted>>

\* one iteration of a query loop of RunInner: the job's call to the client,
\* unless it is skipped, and errs.Add of what it returned
QueryJob ==
  /\ qrun.i >= 1 /\ qrun.i <= Len(queryJobs(qrun.plan))
  /\ LET c == clientCall(qrun.records, queryJobs(qrun.plan)[qrun.i])
     IN  IF c.skip
         THEN qrun' = [qrun EXCEPT !.i = @ + 1]
         ELSE \E out \in QueryOutcomes :
                /\ out # "" => Len(qrun.errs) < MaxFailures
                /\ qrun' = [qrun EXCEPT
                              !.i = @ + 1,
                              !.issued = Append(@, [call |-> c, out |-> out]),
                              !.errs = IF out = "" THEN @
                                       ELSE Append(@, <<qrun.i, out>>)]
  /\ UNCHANGED <<writeLimiter, ccall, rdo, scall, gcall, pcall, wloop, vcall, enabled, now, pc, cur, hist, scan, ctxDone,
                 errs, runErr, visited, lastCall, retries, okSince, rejected,
                 recovered, aborted>>

\* the records RunInner may query with: a subset of the planner's
QueryOffsets ==
  {0, 5 * Minute, 2 * Hour, 24 * Hour + writeInterval * Second}

QueryRecords ==
  { r \in PlanRecords :
      \/ r = zeroHistory
      \/ /\ PlanBase - r.queryMinTime \in QueryOffsets
         /\ PlanBase - r.queryMaxTime \in QueryOffsets }

\* RunInner has left its write loop with some records
InitQuery ==
  /\ enabled = <<1>>
  /\ now = T0
  /\ pc = "idle" /\ cur = 0
  /\ hist = [p \in Profiles |-> zeroHistory]
  /\ scan = newScan(0)
  /\ ctxDone = FALSE
  /\ errs = {} /\ runErr = {}
  /\ lastCall = noCall /\ visited = {}
  /\ retries = 0
  /\ okSince = [p \in Profiles |-> {}]
  /\ rejected = [p \in Profiles |-> 0]
  /\ recovered = [p \in Profiles |-> {}]
  /\ aborted = [p \in Profiles |-> 0]
  /\ vcall = noVerify
  /\ wloop = noLoop
  /\ writeLimiter = noLimiter
  /\ ccall = noCompare /\ rdo = noRetry /\ scall = noStep
  /\ gcall = noHistogram
  /\ pcall = noPlan
  /\ \E t \in PlanNow, records \in QueryRecords,
        age \in {30 * Minute, 7 * 24 * Hour} :
       qrun = [noQueries EXCEPT !.now = t, !.records = records,
                                !.maxQueryAge = age]

NextQuery == QueryPlanned \/ QueryJob

SpecQuery == InitQuery /\ [][NextQuery]_vars

(***************************************************************************)
(* the histogram generators on their own: one call of a histogram          *)
(* profile's generateHistogram at a drawn time                             *)
(***************************************************************************)
\* the times drawn: every half write interval from the epoch to the end of
\* the model's clock, so that even and odd minutes both occur
GenTimes == { k * (writeInterval \div 2) : k \in 0..(2 * (MaxNow \div writeInterval)) }

\* generateHistogram(t) of the profile returns
GenCall ==
  /\ gcall.i # 0
  /\ gcall.h = pendingHistogram
  /\ gcall' = [gcall EXCEPT !.h = generateHistogram(gcall.i, gcall.t)]
  /\ UNCHANGED <<writeLimiter, ccall, rdo, scall, qrun, pcall, wloop, vcall, enabled, now, pc, cur, hist, scan,
                 ctxDone, errs, runErr, visited, lastCall, retries, okSince,
                 rejected, recovered, aborted>>

InitGen ==
  /\ enabled = <<1>>
  /\ now = T0
  /\ pc = "idle" /\ cur = 0
  /\ hist = [p \in Profiles |-> zeroHistory]
  /\ scan = newScan(0)
  /\ ctxDone = FALSE
  /\ errs = {} /\ runErr = {}
  /\ lastCall = noCall /\ visited = {}
  /\ retries = 0
  /\ okSince = [p \in Profiles |-> {}]
  /\ rejected = [p \in Profiles |-> 0]
  /\ recovered = [p \in Profiles |-> {}]
  /\ aborted = [p \in Profiles |-> 0]
  /\ vcall = noVerify
  /\ wloop = noLoop
  /\ writeLimiter = noLimiter
  /\ ccall = noCompare /\ rdo = noRetry /\ scall = noStep
  /\ pcall = noPlan
  /\ qrun = noQueries
  /\ \E i \in DOMAIN histogramTypeLabels, t \in GenTimes :
       gcall = [i |-> i, t |-> t, h |-> pendingHistogram]

NextGen == GenCall

SpecGen == InitGen /\ [][NextGen]_vars

(***************************************************************************)
(* compareSampleValues on its own: one call on a drawn pair of values      *)
(***************************************************************************)
\* the expected values drawn: 0.90, 0.91, ... 1.10 in value units
CompareExpected == { k * (ValueUnit \div 100) : k \in 90..110 }

\* E * delta^2 in value units, exact for the expected values drawn
deltaSquaredOf(E) == E \div (DeltaInv * DeltaInv)

\* the actual values drawn for the expected value E: E itself, E*(1 + d^2),
\* E*(1 - d^2), E + 2d, E - 2d, and the values next to the tolerance
CompareActual(E) ==
  { E, E + deltaSquaredOf(E), E - deltaSquaredOf(E),
    E + 2 * (ValueUnit \div DeltaInv), E - 2 * (ValueUnit \div DeltaInv) }
  \cup { E + o : o \in { -101, -100, -99, 99, 100, 101 } }

\* compareSampleValues(actual, expected) returns
CompareCall ==
  /\ ccall # noCompare
  /\ ~ccall.done
  /\ ccall' = [ccall EXCEPT !.done = TRUE,
                            !.equal = compareSampleValues(ccall.actual, ccall.expected)]
  /\ UNCHANGED <<writeLimiter, rdo, scall, gcall, qrun, pcall, wloop, vcall, enabled, now,
                 pc, cur, hist, scan, ctxDone, errs, runErr, visited, lastCall,
                 retries, okSince, rejected, recovered, aborted>>

InitCompare ==
  /\ enabled = <<1>>
  /\ now = T0
  /\ pc = "idle" /\ cur = 0
  /\ hist = [p \in Profiles |-> zeroHistory]
  /\ scan = newScan(0)
  /\ ctxDone = FALSE
  /\ errs = {} /\ runErr = {}
  /\ lastCall = noCall /\ visited = {}
  /\ retries = 0
  /\ okSince = [p \in Profiles |-> {}]
  /\ rejected = [p \in Profiles |-> 0]
  /\ recovered = [p \in Profiles |-> {}]
  /\ aborted = [p \in Profiles |-> 0]
  /\ vcall = noVerify
  /\ wloop = noLoop
  /\ writeLimiter = noLimiter
  /\ pcall = noPlan
  /\ qrun = noQueries
  /\ gcall = noHistogram
  /\ rdo = noRetry /\ scall = noStep
  /\ \E E \in CompareExpected : \E a \in CompareActual(E) :
       ccall = [actual |-> a, expected |-> E, done |-> FALSE, equal |-> FALSE]

NextCompare == CompareCall

SpecCompare == InitCompare /\ [][NextCompare]_vars

(***************************************************************************)
(* the retry middleware: one execution of retry.Do, one step per turn of   *)
(* its loop.  An error is "" (nil) or one of HandlerErrors; a response is  *)
(* 0 (nil) or the number of the call that returned it.  A call is logged   *)
(* with what it returned, whether the context was cancelled when it was    *)
(* made (ctx) and whether it was cancelled while it ran (cancels).         *)
(***************************************************************************)
\* the errors the next handler returns: a plain error, HTTP errors of the
\* classes 5xx, 4xx and 3xx, a Prometheus API error, and context.Canceled
HandlerErrors == {"fail", "http500", "http400", "http302", "api", "canceled"}

\* ctx.Err() of a cancelled context
ctxErr == "canceled"

\* apierror.IsAPIError(err) || errors.Is(err, context.Canceled)
nonRetryable(err) == err \in {"api", "canceled"}

\* httpgrpc.HTTPResponseFromError(err): ok, and the code's class
isHTTP(err) == err \in {"http500", "http400", "http302"}
httpClass(err) ==
  CASE err = "http500" -> 5
    [] err = "http400" -> 4
    [] err = "http302" -> 3

\* the values maxRetries is drawn from, zero and a negative one included
RetryLimits == -1..MaxTries

\* Do returns resp, err; the deferred function observes tries
retryReturn(r, resp, err) ==
  [r EXCEPT !.pc = "done", !.resp = resp, !.err = err, !.observed = r.tries]

\* retryTurn that goes on after any HTTP error
retryTurnAnyHTTP(r, resp, err, cancels) ==
  LET c == [r EXCEPT !.calls = Append(r.calls, [resp |-> resp, err |-> err,
                                                      ctx |-> r.cancelled,
                                                      cancels |-> cancels]),
                     !.cancelled = r.cancelled \/ cancels]
  IN  IF err = ""
      THEN retryReturn(c, resp, "")
      ELSE IF nonRetryable(err)
      THEN retryReturn(c, 0, err)
      ELSE [c EXCEPT !.lastErr = err, !.tries = r.tries + 1]

\* retryTurn that keeps the first retryable error as lastErr
retryTurnFirstErr(r, resp, err, cancels) ==
  LET c == [r EXCEPT !.calls = Append(r.calls, [resp |-> resp, err |-> err,
                                                      ctx |-> r.cancelled,
                                                      cancels |-> cancels]),
                     !.cancelled = r.cancelled \/ cancels]
  IN  IF err = ""
      THEN retryReturn(c, resp, "")
      ELSE IF nonRetryable(err)
      THEN retryReturn(c, 0, err)
      ELSE IF ~isHTTP(err) \/ httpClass(err) = 5
      THEN [c EXCEPT !.lastErr = IF r.lastErr = "" THEN err ELSE r.lastErr,
                     !.tries = r.tries + 1]
      ELSE retryReturn(c, 0, err)

\* one turn of the loop with the context not cancelled at its top: the next
\* handler is called, returns resp, err and may have cancelled the context
\* meanwhile
retryTurn(r, resp, err, cancels) ==
  LET c == [r EXCEPT !.calls = Append(r.calls, [resp |-> resp, err |-> err,
                                                      ctx |-> r.cancelled,
                                                      cancels |-> cancels]),
                     !.cancelled = r.cancelled \/ cancels]
  IN  IF err = ""
      THEN retryReturn(c, resp, "")
      ELSE IF nonRetryable(err)
      THEN retryReturn(c, 0, err)
      ELSE IF ~isHTTP(err) \/ httpClass(err) = 5
      THEN [c EXCEPT !.lastErr = err, !.tries = r.tries + 1]
      ELSE retryReturn(c, 0, err)

RetryUnchanged ==
  UNCHANGED <<writeLimiter, ccall, scall, gcall, qrun, pcall, wloop, vcall, enabled, now, pc,
              cur, hist, scan, ctxDone, errs, runErr, visited, lastCall,
              retries, okSince, rejected, recovered, aborted>>

\* tries < maxRetries and ctx.Err() == nil: r.next.Do is called
RetryCall ==
  /\ rdo.pc = "loop"
  /\ rdo.tries < rdo.maxRetries
  /\ ~rdo.cancelled
  /\ \E err \in HandlerErrors \cup {""}, cancels \in BOOLEAN :
       rdo' = retryTurn(rdo, IF err = "" THEN Len(rdo.calls) + 1 ELSE 0,
                        err, cancels)
  /\ RetryUnchanged

\* RetryCancelled that returns the last error of the handler
RetryCancelledLastErr ==
  /\ rdo.pc = "loop"
  /\ rdo.tries < rdo.maxRetries
  /\ rdo.cancelled
  /\ rdo' = retryReturn(rdo, 0, rdo.lastErr)
  /\ RetryUnchanged

\* tries < maxRetries and ctx.Err() != nil: return nil, ctx.Err()
RetryCancelled ==
  /\ rdo.pc = "loop"
  /\ rdo.tries < rdo.maxRetries
  /\ rdo.cancelled
  /\ rdo' = retryReturn(rdo, 0, ctxErr)
  /\ RetryUnchanged

\* the loop condition fails: return nil, lastErr
RetryExhausted ==
  /\ rdo.pc = "loop"
  /\ ~(rdo.tries < rdo.maxRetries)
  /\ rdo' = retryReturn(rdo, 0, rdo.lastErr)
  /\ RetryUnchanged

InitRetry ==
  /\ enabled = <<1>>
  /\ now = T0
  /\ pc = "idle" /\ cur = 0
  /\ hist = [p \in Profiles |-> zeroHistory]
  /\ scan = newScan(0)
  /\ ctxDone = FALSE
  /\ errs = {} /\ runErr = {}
  /\ lastCall = noCall /\ visited = {}
  /\ retries = 0
  /\ okSince = [p \in Profiles |-> {}]
  /\ rejected = [p \in Profiles |-> 0]
  /\ recovered = [p \in Profiles |-> {}]
  /\ aborted = [p \in Profiles |-> 0]
  /\ vcall = noVerify
  /\ wloop = noLoop
  /\ writeLimiter = noLimiter
  /\ pcall = noPlan
  /\ qrun = noQueries
  /\ gcall = noHistogram
  /\ ccall = noCompare /\ scall = noStep
  /\ \E m \in RetryLimits, c \in BOOLEAN :
       rdo = [noRetry EXCEPT !.maxRetries = m, !.pc = "loop", !.cancelled = c]

NextRetry == RetryCall \/ RetryCancelled \/ RetryExhausted

SpecRetry == InitRetry /\ [][NextRetry]_vars

(***************************************************************************)
(* getQueryStep on its own: one call on drawn times and interval           *)
(***************************************************************************)
\* the align intervals drawn, the write interval in milliseconds among them
StepIntervals == {1, 2, 3, 7, writeInterval * Second}

\* the whole intervals a drawn range spans: none, few, and around the one
\* and two thousand samples
StepMultiples == {0, 1, 999, 1000, 1001, 1002, 1999, 2000, 2001, 5000}

\* the lengths drawn for the interval ai: a multiple of it, and one more
\* and one less than the next multiple
StepSpans(ai) ==
  { m * ai + j : m \in StepMultiples, j \in {0, 1, ai - 1} }

\* the start times drawn
StepStarts == {0, 5, 12 * Hour}

\* getQueryStep(start, end, alignInterval) returns
StepCall ==
  /\ scall # noStep
  /\ ~scall.done
  /\ scall' = [scall EXCEPT
                 !.done = TRUE,
                 !.step = getQueryStep(scall.start, scall.end, scall.alignInterval)]
  /\ UNCHANGED <<writeLimiter, ccall, rdo, gcall, qrun, pcall, wloop, vcall,
                 enabled, now, pc, cur, hist, scan, ctxDone, errs, runErr,
                 visited, lastCall, retries, okSince, rejected, recovered,
                 aborted>>

InitStep ==
  /\ enabled = <<1>>
  /\ now = T0
  /\ pc = "idle" /\ cur = 0
  /\ hist = [p \in Profiles |-> zeroHistory]
  /\ scan = newScan(0)
  /\ ctxDone = FALSE
  /\ errs = {} /\ runErr = {}
  /\ lastCall = noCall /\ visited = {}
  /\ retries = 0
  /\ okSince = [p \in Profiles |-> {}]
  /\ rejected = [p \in Profiles |-> 0]
  /\ recovered = [p \in Profiles |-> {}]
  /\ aborted = [p \in Profiles |-> 0]
  /\ vcall = noVerify
  /\ wloop = noLoop
  /\ writeLimiter = noLimiter
  /\ pcall = noPlan
  /\ qrun = noQueries
  /\ gcall = noHistogram
  /\ ccall = noCompare /\ rdo = noRetry
  /\ \E ai \in StepIntervals, start \in StepStarts :
       \E d \in StepSpans(ai) :
         scall = [start |-> start, end |-> start + d, alignInterval |-> ai,
                  done |-> FALSE, step |-> 0]

NextStep == StepCall

SpecStep == InitStep /\ [][NextStep]_vars

(***************************************************************************)
(* properties of the write path and of the history                         *)
(***************************************************************************)
statusClass(c) == c.status \div 100

\* a WriteSeries call of the RunInner in progress has returned
called == lastCall.p # 0

\* the write interval grid from a to b
Grid(a, b) == { t \in a..b : (t - a) % writeInterval = 0 }

\* C1: whenever queryMinTime and queryMaxTime of a profile are both non-zero,
\* queryMinTime <= queryMaxTime <= lastWrittenTimestamp, after Init and
\* after any writes of any outcome.
C1_HistoryOrdered ==
  \A p \in Profiles :
    (~IsZero(hist[p].queryMinTime) /\ ~IsZero(hist[p].queryMaxTime)) =>
      /\ hist[p].queryMinTime <= hist[p].queryMaxTime
      /\ hist[p].queryMaxTime <= hist[p].lastWrittenTimestamp

\* a recovered range that a successful write has extended
C1_Witness ==
  \E p \in Profiles :
    /\ recovered[p] # {} /\ okSince[p] # {}
    /\ hist[p].queryMinTime < hist[p].queryMaxTime
    /\ hist[p].queryMaxTime = hist[p].lastWrittenTimestamp

\* C2: after a 2xx with no error for timestamp T, lastWrittenTimestamp = T,
\* queryMaxTime = T, queryMinTime = T if it was zero and unchanged otherwise,
\* and writeSamples returned no error.
C2_SuccessUpdatesHistory ==
  (called /\ statusClass(lastCall) = 2 /\ ~lastCall.err) =>
    /\ hist[lastCall.p].lastWrittenTimestamp = lastCall.ts
    /\ hist[lastCall.p].queryMaxTime = lastCall.ts
    /\ hist[lastCall.p].queryMinTime =
         (IF IsZero(lastCall.pre.queryMinTime)
          THEN lastCall.ts ELSE lastCall.pre.queryMinTime)
    /\ lastCall.ret = ""

\* a successful write onto a range that had already started
C2_Witness ==
  /\ called /\ statusClass(lastCall) = 2 /\ ~lastCall.err
  /\ ~IsZero(lastCall.pre.queryMinTime)
  /\ lastCall.pre.queryMinTime < lastCall.ts

\* C3: after a 4xx for timestamp T, with or without an error,
\* lastWrittenTimestamp = T, both query bounds are zero, writeSamples returned
\* no error, and the write loop is at T + writeInterval: it goes on there, or
\* has ended because T + writeInterval is after now.
C3_ClientErrorAdvances ==
  (called /\ statusClass(lastCall) = 4) =>
    /\ hist[lastCall.p] = [lastWrittenTimestamp |-> lastCall.ts,
                           queryMinTime |-> 0, queryMaxTime |-> 0]
    /\ lastCall.ret = ""
    /\ profile = lastCall.p
    /\ nextWriteTimestamp(now, hist[lastCall.p]) = lastCall.ts + writeInterval
    /\ \/ pc = "write"
       \/ pc = "query" /\ lastCall.ts + writeInterval > now

\* a 4xx that came with an error, on a range that was set, with the loop
\* about to write the next interval
C3_Witness ==
  /\ called /\ statusClass(lastCall) = 4 /\ lastCall.err
  /\ ~IsZero(lastCall.pre.queryMaxTime)
  /\ pc = "write" /\ ~ctxDone
  /\ nextWriteTimestamp(now, hist[lastCall.p]) <= now

\* C4: after a transport error or a 5xx, with or without an error value,
\* writeSamples returned an error, the records are unchanged and the write
\* loop of the profile has ended for this run.
C4_ServerErrorAborts ==
  (called /\ (statusClass(lastCall) = 5 \/ (lastCall.err /\ lastCall.status = 0))) =>
    /\ lastCall.ret # ""
    /\ hist[lastCall.p] = lastCall.pre
    /\ pc = "query"

\* C5 as stated: the first write after an aborted write for T is again for
\* T, with or without history.
C5_RetrySameTimestamp ==
  (called /\ lastCall.prevAborted # 0) => lastCall.ts = lastCall.prevAborted

\* C5: the first write after an aborted write for T is again for T when the
\* profile had a lastWrittenTimestamp; with none it is for the now of its
\* own run aligned to the write interval.
C5_RetryFromCursor ==
  (called /\ lastCall.prevAborted # 0) =>
    IF ~IsZero(lastCall.pre.lastWrittenTimestamp)
    THEN lastCall.ts = lastCall.prevAborted
    ELSE lastCall.ts = alignTimestampToInterval(now, writeInterval)

\* a write retried in a later run, whose now has moved on by more than an
\* interval, for a profile that has history
C5_Witness ==
  /\ called /\ lastCall.prevAborted # 0
  /\ ~IsZero(lastCall.pre.lastWrittenTimestamp)
  /\ lastCall.first
  /\ lastCall.ts + writeInterval <= now

\* C6: the queryable range has no gap: every timestamp of the write interval
\* grid from queryMinTime to queryMaxTime was written with success or
\* verified by the recovery scan, queryMaxTime is on that grid, the last
\* timestamp that got a 4xx lies before the range and a timestamp whose write
\* failed and was not retried lies after it.
C6_RangeGapFree ==
  \A p \in Profiles :
    (~IsZero(hist[p].queryMinTime) /\ ~IsZero(hist[p].queryMaxTime)) =>
      /\ \A t \in Grid(hist[p].queryMinTime, hist[p].queryMaxTime) :
           t \in okSince[p] \cup recovered[p]
      /\ hist[p].queryMaxTime \in Grid(hist[p].queryMinTime, hist[p].queryMaxTime)
      /\ rejected[p] # 0 => rejected[p] < hist[p].queryMinTime
      /\ aborted[p] # 0 => aborted[p] > hist[p].queryMaxTime

\* a range that began in the recovered history and now ends at a timestamp
\* written in a run
C6_Witness ==
  \E p \in Profiles :
    /\ hist[p].queryMinTime \in recovered[p]
    /\ hist[p].queryMaxTime \in okSince[p]
    /\ hist[p].queryMaxTime \notin recovered[p]

\* a range that started again after a 4xx
C6_WitnessAfterReject ==
  \E p \in Profiles :
    /\ rejected[p] # 0
    /\ hist[p].queryMinTime > rejected[p]
    /\ hist[p].queryMaxTime > hist[p].queryMinTime

\* C7: a step of Run changes the records of the profile it is working on
\* only; the errors of a run only accumulate, a failed write leaves its
\* error among them, and when Run returns it returns them all, having
\* entered RunInner for every enabled profile.
C7_ProfilesIndependent ==
  [][ /\ \A q \in Profiles :
           (cur = 0 \/ q # profile) => hist'[q] = hist[q]
      /\ pc # "idle" => errs \subseteq errs'
      /\ (lastCall'.p # 0 /\ lastCall'.ret # "") =>
           <<lastCall'.p, "write">> \in errs'
      /\ (pc # "idle" /\ pc' = "idle") =>
           /\ runErr' = errs'
           /\ visited' = { enabled[i] : i \in 1..Len(enabled) } ]_vars

\* Run returned the write error of the first profile and the failed result
\* check of the second, which wrote with success in the same run
C7_Witness ==
  /\ pc = "idle"
  /\ <<enabled[1], "write">> \in runErr
  /\ <<enabled[2], "result check failed">> \in runErr
  /\ hist[enabled[2]].queryMaxTime = alignTimestampToInterval(now, writeInterval)
  /\ IsZero(hist[enabled[1]].lastWrittenTimestamp)

(***************************************************************************)
(* properties of the verifier and of the recovery scan                     *)
(***************************************************************************)
\* the point e carries the value expected of profile p at its timestamp
matches(p, e) ==
  ~e.nil /\ compareSampleValues(e.v, generateValue(p, e.ts) * NumSeries)

\* from position i on, every point matches and every two neighbours are
\* step apart
GoodFrom(p, elems, step, i) ==
  \A j \in i..Len(elems) :
    /\ matches(p, elems[j])
    /\ j < Len(elems) => elems[j + 1].ts - elems[j].ts = step

\* the 0-based index of the oldest point from which all is good, or -1
OldestGood(p, elems, step) ==
  IF ~GoodFrom(p, elems, step, Len(elems))
  THEN -1
  ELSE (CHOOSE i \in 1..Len(elems) :
          /\ GoodFrom(p, elems, step, i)
          /\ \A k \in 1..(i - 1) : ~GoodFrom(p, elems, step, k)) - 1

\* verifySamplesSum has returned from a call made on its own
verified == vcall.p # 0 /\ vcall.r # pending

\* the result has one series that holds only floats or only histograms
oneKind ==
  /\ Len(vcall.matrix) = 1
  /\ (Len(vcall.matrix[1].Values) > 0) # (Len(vcall.matrix[1].Histograms) > 0)

\* the points of that series
vElems ==
  IF Len(vcall.matrix[1].Histograms) > 0
  THEN vcall.matrix[1].Histograms
  ELSE vcall.matrix[1].Values

\* three matching points at t, t + step and t + 3 * step
gapExample ==
  /\ oneKind /\ vcall.step > 0
  /\ Len(vElems) = 3
  /\ \A j \in 1..3 : matches(vcall.p, vElems[j])
  /\ vElems[2].ts = vElems[1].ts + vcall.step
  /\ vElems[3].ts = vElems[1].ts + 3 * vcall.step

\* C8: on one series of floats only or histograms only, verifySamplesSum
\* returns the smallest index from which every point matches the expected
\* value and every two neighbours are expectedStep apart, -1 when the newest
\* point mismatches, and a nil error exactly when that index is 0; on points
\* at t, t+step, t+3*step it returns an error and the index after the gap.
C8_VerifyOldestMatching ==
  (verified /\ oneKind) =>
    /\ vcall.r.idx = OldestGood(vcall.p, vElems, vcall.step)
    /\ (vcall.r.err = "") <=> (vcall.r.idx = 0)
    /\ gapExample => vcall.r.idx = 2 /\ vcall.r.err # ""

\* the call on the points at t, t+step, t+3*step has returned
C8_Witness == verified /\ gapExample

\* C9: on a result that has not exactly one series, or whose series holds
\* both floats and histograms or neither, verifySamplesSum returns -1 and an
\* error and has compared no value.
C9_VerifyRejectsShape ==
  (verified /\ ~oneKind) =>
    /\ vcall.r.idx = -1
    /\ vcall.r.err # ""
    /\ vcall.r.compared = 0

\* the call on two series of matching floats has returned
C9_Witness ==
  /\ verified
  /\ Len(vcall.matrix) = 2
  /\ Len(vcall.matrix[1].Values) = 2
  /\ \A j \in 1..2 : matches(vcall.p, vcall.matrix[1].Values[j])

\* the scan has returned and recoverPast has not yet used its result
scanned == pc = "recover" /\ scan.done

\* what the scan has accumulated, when it is of one kind
accumulated ==
  IF scan.histograms = <<>> THEN scan.samples ELSE scan.histograms

\* the store held one unbroken run of matching points that ends at now
\* aligned, and nothing right before it
unbrokenHistory ==
  /\ scan.samples = <<>> \/ scan.histograms = <<>>
  /\ accumulated # <<>>
  /\ GoodFrom(profile, accumulated, writeInterval, 1)
  /\ accumulated[Len(accumulated)].ts = alignTimestampToInterval(now, writeInterval)

\* the floats or the histograms the scan has accumulated, whichever kind
\* its first window answered with
accumulatedKind ==
  IF scan.first # <<>> /\ scan.histograms # <<>>
     /\ scan.histograms[Len(scan.histograms)] = scan.first[Len(scan.first)]
  THEN scan.histograms
  ELSE scan.samples

\* C10 as stated: a scan that returns a non-zero range returns as `to` the
\* newest point of the first window and as `from` the oldest accumulated point
\* from which every accumulated point matches and is writeInterval from its
\* neighbour.
C10_ScanOldestAccumulated ==
  (scanned /\ ~IsZero(scan.from) /\ ~IsZero(scan.to)) =>
    /\ scan.first # <<>>
    /\ scan.to = scan.first[Len(scan.first)].ts
    /\ OldestGood(profile, accumulatedKind, writeInterval) >= 0
    /\ scan.from =
         accumulatedKind[OldestGood(profile, accumulatedKind, writeInterval) + 1].ts

\* C10: a scan that returns a non-zero range returns as `to` the newest
\* point of the first window and as `from` the oldest point of the
\* accumulator as last verified from which every point matches and is
\* writeInterval from its neighbour; that accumulator is all the scan has
\* accumulated unless the scan ended on an answer that mixed floats and
\* histograms.  On a store that holds one unbroken run of matching points
\* ending at now aligned, the range is that run and lastWrittenTimestamp
\* becomes its newest point.
C10_ScanRecoversRange ==
  scanned =>
    /\ (~IsZero(scan.from) /\ ~IsZero(scan.to)) =>
         /\ scan.first # <<>>
         /\ scan.to = scan.first[Len(scan.first)].ts
         /\ OldestGood(profile, scan.verified, writeInterval) >= 0
         /\ scan.from =
              scan.verified[OldestGood(profile, scan.verified, writeInterval) + 1].ts
         /\ scan.why # "mixed" => scan.verified = accumulated
    /\ unbrokenHistory =>
         /\ scan.from = accumulated[1].ts
         /\ scan.to = alignTimestampToInterval(now, writeInterval)
         /\ recoverPast(hist[profile], now, scan.from, scan.to).lastWrittenTimestamp
              = scan.to

\* the scan went through two windows and found a run that is one point
\* longer than a window, with nothing before it
C10_Witness ==
  /\ scanned /\ unbrokenHistory
  /\ scan.queries = 2 /\ scan.why = "oldest found"
  /\ Len(accumulated) = WindowSteps + 1
  /\ scan.from = accumulated[1].ts

(***************************************************************************)
(* properties of Init                                                      *)
(***************************************************************************)
\* the scan stopped on an answer with no series, with more than one, or
\* with floats and histograms mixed or neither
stoppedOnAnswer == scanned /\ scan.why \in {"no series", "many series", "mixed"}

\* what recoverPast makes of the scan's result
afterScan == recoverPast(hist[profile], now, scan.from, scan.to)

\* C11 as stated: when the answer of any window has no series, more than
\* one series or a mix of floats and histograms, the three timestamps of the
\* profile stay zero and no error is returned.
C11_StopMeansNoHistory ==
  stoppedOnAnswer =>
    /\ afterScan = zeroHistory
    /\ recoverPastErr(hist[profile], now, scan.from, scan.to) = ""

\* C11: when the answer of a window has no series, more than one series or
\* a mix of floats and histograms, the scan stops and no error is returned;
\* if that window is the first the three timestamps stay zero, and if it is
\* a later one the scan returns the range it verified in the windows before,
\* which recoverPast takes over unless its newest point is too old.
C11_StopKeepsEarlierRange ==
  stoppedOnAnswer =>
    /\ recoverPastErr(hist[profile], now, scan.from, scan.to) = ""
    /\ IF scan.queries = 1
       THEN /\ IsZero(scan.from) /\ IsZero(scan.to)
            /\ afterScan = zeroHistory
       ELSE /\ scan.from = scan.verified[scan.vidx + 1].ts
            /\ scan.to = scan.first[Len(scan.first)].ts
            /\ ~(scan.to < now - writeMaxAge) =>
                 afterScan = [lastWrittenTimestamp |-> scan.to,
                              queryMinTime |-> scan.from,
                              queryMaxTime |-> scan.to]

\* the second window's answer had no series and the range of the first
\* window is recovered
C11_Witness ==
  /\ stoppedOnAnswer /\ scan.queries = 2 /\ scan.why = "no series"
  /\ afterScan.queryMinTime < afterScan.queryMaxTime

\* the first window's answer mixed floats and histograms
C11_WitnessFirstWindow ==
  /\ stoppedOnAnswer /\ scan.queries = 1 /\ scan.why = "mixed"
  /\ scan.samples # <<>> /\ scan.histograms # <<>>

\* C12: the step of recoverPast sets queryMinTime = from, queryMaxTime = to
\* and lastWrittenTimestamp = to exactly when the scan returned non-zero
\* from and to with to not before now - writeMaxAge; otherwise the three
\* timestamps, zero before, stay zero; it returns no error either way.
C12_RecoverPastExact ==
  [][ (pc = "recover" /\ scan.done) =>
        /\ hist[profile] = zeroHistory
        /\ hist'[profile] =
             IF ~IsZero(scan.from) /\ ~IsZero(scan.to)
                /\ ~(scan.to < now - writeMaxAge)
             THEN [lastWrittenTimestamp |-> scan.to,
                   queryMinTime |-> scan.from,
                   queryMaxTime |-> scan.to]
             ELSE zeroHistory
        /\ recoverPastErr(hist[profile], now, scan.from, scan.to) = "" ]_vars

\* Init has returned with a range recovered whose newest point is exactly
\* writeMaxAge before now
C12_Witness ==
  \E p \in Profiles :
    /\ pc = "idle" /\ recovered[p] # {} /\ okSince[p] = {}
    /\ hist[p].lastWrittenTimestamp = now - writeMaxAge
    /\ hist[p].queryMaxTime = hist[p].lastWrittenTimestamp
    /\ hist[p].queryMinTime <= hist[p].queryMaxTime

\* the scan returned a range whose newest point is older than writeMaxAge
C12_WitnessTooOld ==
  /\ scanned /\ ~IsZero(scan.from) /\ ~IsZero(scan.to)
  /\ scan.to < now - writeMaxAge

\* the scan windows it takes to cover the max query age, the last one
\* possibly in part
MaxScanQueries == (MaxQueryAge + scanWindow - 1) \div scanWindow

goodLoop == pc \in {"write", "query"} /\ wloop.good

\* the first timestamp such a loop has to write
firstDue ==
  IF IsZero(wloop.start.lastWrittenTimestamp)
  THEN alignTimestampToInterval(now, writeInterval)
  ELSE wloop.start.lastWrittenTimestamp + writeInterval

\* C14: in a write loop without a failed write, the k-th WriteSeries call is
\* for lastWrittenTimestamp + k * writeInterval (for now aligned when there
\* is no history) and does not exceed now; when the loop has ended it has
\* made one call for each such timestamp (one call when there was no
\* history) and now - writeInterval < lastWrittenTimestamp <= now.
C14_WriteLoopCoversGrid ==
  goodLoop =>
    /\ wloop.start.lastWrittenTimestamp <= now
    /\ wloop.n > 0 =>
         /\ lastCall.ts = firstDue + (wloop.n - 1) * writeInterval
         /\ lastCall.ts <= now
         /\ hist[profile].lastWrittenTimestamp = lastCall.ts
    /\ pc = "query" =>
         /\ wloop.n = IF IsZero(wloop.start.lastWrittenTimestamp)
                      THEN 1
                      ELSE (now - wloop.start.lastWrittenTimestamp) \div writeInterval
         /\ now - writeInterval < hist[profile].lastWrittenTimestamp
         /\ hist[profile].lastWrittenTimestamp <= now

\* a loop that started from a history has ended after two calls, one of
\* which got a 4xx
C14_Witness ==
  /\ goodLoop /\ pc = "query"
  /\ ~IsZero(wloop.start.lastWrittenTimestamp)
  /\ wloop.n = 2
  /\ rejected[profile] > wloop.start.lastWrittenTimestamp

(***************************************************************************)
(* properties of the query planner                                         *)
(***************************************************************************)
\* getQueryTimeRanges has returned from a call made on its own
planned == pcall.now # 0 /\ pcall.res # pendingPlan

\* max(queryMinTime, now - MaxQueryAge) of that call
planMin == maxTime(pcall.records.queryMinTime, pcall.now - pcall.maxQueryAge)

\* the call had nothing it may query
nothingToQuery ==
  \/ IsZero(pcall.records.queryMinTime)
  \/ IsZero(pcall.records.queryMaxTime)
  \/ pcall.records.queryMaxTime < planMin

\* C15: getQueryTimeRanges returns no range, no instant and an error when
\* queryMinTime or queryMaxTime is zero or queryMaxTime is before
\* max(queryMinTime, now - MaxQueryAge), and otherwise at least one range,
\* at least one instant and no error.
C15_PlanOrError ==
  planned =>
    IF nothingToQuery
    THEN /\ pcall.res.ranges = <<>> /\ pcall.res.instants = <<>>
         /\ pcall.res.err # ""
    ELSE /\ Len(pcall.res.ranges) >= 1 /\ Len(pcall.res.instants) >= 1
         /\ pcall.res.err = ""

\* the call on a queryable range that the max query age has left behind
C15_Witness ==
  /\ planned
  /\ ~IsZero(pcall.records.queryMinTime)
  /\ pcall.records.queryMaxTime < pcall.now - pcall.maxQueryAge
  /\ pcall.res.err # ""

\* the call on a range that has a single point
C15_WitnessOnePoint ==
  /\ planned
  /\ ~IsZero(pcall.records.queryMinTime)
  /\ pcall.records.queryMinTime = pcall.records.queryMaxTime
  /\ Len(pcall.res.ranges) = 2

\* the call was made on records with queryMinTime <= queryMaxTime <= now
orderedRecords ==
  /\ ~IsZero(pcall.records.queryMinTime)
  /\ pcall.records.queryMinTime <= pcall.records.queryMaxTime
  /\ pcall.records.queryMaxTime <= pcall.now

\* C16: on records with queryMinTime <= queryMaxTime <= now, every range
\* (start, end) that getQueryTimeRanges returns has
\* max(queryMinTime, now - MaxQueryAge) <= start <= end <= queryMaxTime, and
\* every instant it returns lies between the same two times.
C16_RangesWithinSpan ==
  (planned /\ orderedRecords) =>
    /\ \A i \in 1..Len(pcall.res.ranges) :
         /\ planMin <= pcall.res.ranges[i][1]
         /\ pcall.res.ranges[i][1] <= pcall.res.ranges[i][2]
         /\ pcall.res.ranges[i][2] <= pcall.records.queryMaxTime
    /\ \A i \in 1..Len(pcall.res.instants) :
         /\ planMin <= pcall.res.instants[i]
         /\ pcall.res.instants[i] <= pcall.records.queryMaxTime

\* the call was made with queryMinTime = now - 2h and queryMaxTime = now - 5m
twoHourSpan ==
  /\ planned
  /\ pcall.records.queryMinTime = pcall.now - 2 * Hour
  /\ pcall.records.queryMaxTime = pcall.now - 5 * Minute

due1h == pcall.records.queryMaxTime > pcall.now - Hour

\* the last 24h range is due: the queryable range reaches into the last 24
\* hours and what may be queried of it starts more than an hour ago
due24h ==
  /\ pcall.records.queryMaxTime > pcall.now - 24 * Hour
  /\ planMin < pcall.now - Hour

\* C18: when what may be queried starts at or after now - 1h, no last 24h
\* range is returned: the ranges are the last 1h range, if due, and the
\* random one.  When the last 1h and the last 24h range are both returned
\* the second starts strictly before the first.  The last 1h range comes
\* with the instant at its end and the last 24h range with the instant at
\* its start.
C18_Last24hOnlyIfNotCovered ==
  (planned /\ pcall.res.err = "") =>
    /\ planMin >= pcall.now - Hour =>
         Len(pcall.res.ranges) = (IF due1h THEN 2 ELSE 1)
    /\ due1h =>
         /\ pcall.res.ranges[1][1] = maxTime(planMin, pcall.now - Hour)
         /\ pcall.res.instants[1] = pcall.res.ranges[1][2]
    /\ (due1h /\ due24h) =>
         /\ pcall.res.ranges[2][1] = maxTime(planMin, pcall.now - 24 * Hour)
         /\ pcall.res.ranges[2][1] < pcall.res.ranges[1][1]
         /\ pcall.res.ranges[2][2] = pcall.res.ranges[1][2]
         /\ pcall.res.instants[2] = pcall.res.ranges[2][1]
    /\ (~due1h /\ due24h) =>
         /\ pcall.res.ranges[1][1] = maxTime(planMin, pcall.now - 24 * Hour)
         /\ pcall.res.instants[1] = pcall.res.ranges[1][1]

\* the call has returned the last 1h, the last 24h, the 23h-24h and the
\* random range
C18_Witness ==
  /\ planned /\ due1h /\ due24h
  /\ Len(pcall.res.ranges) = 4
  /\ Len(pcall.res.instants) = 3

\* the call on a range inside the last hour has returned the last 1h and
\* the random range only
C18_WitnessCovered ==
  /\ planned /\ due1h
  /\ pcall.maxQueryAge > 24 * Hour
  /\ pcall.records.queryMinTime >= pcall.now - Hour
  /\ pcall.records.queryMinTime < pcall.records.queryMaxTime
  /\ Len(pcall.res.ranges) = 2

(***************************************************************************)
(* properties of the query loops                                           *)
(***************************************************************************)
\* the query loops of a RunInner taken on its own have ended
queriesDone == qrun.i > Len(queryJobs(qrun.plan))

\* C19: the calls issued to the client are, in order, two for every planned
\* range and then two for every planned instant, the first with the results
\* cache enabled and the second with it disabled; no job is left out, after
\* a failure or otherwise; every failure is in errs, in order, and nothing
\* else is but the planner's error, after which no call is issued.
C19_EveryJobTwice ==
  qrun.i >= 1 =>
    /\ Len(qrun.issued) = qrun.i - 1
    /\ queriesDone =>
         Len(qrun.issued) = 2 * Len(qrun.plan.ranges) + 2 * Len(qrun.plan.instants)
    /\ \A j \in 1..Len(qrun.issued) :
         /\ qrun.issued[j].call.cache = (j % 2 = 1)
         /\ qrun.issued[j].call.kind =
              IF j <= 2 * Len(qrun.plan.ranges) THEN "range" ELSE "instant"
         /\ qrun.issued[j].call.of =
              IF j <= 2 * Len(qrun.plan.ranges)
              THEN (j + 1) \div 2
              ELSE (j - 2 * Len(qrun.plan.ranges) + 1) \div 2
    /\ IF qrun.plan.err # ""
       THEN qrun.issued = <<>> /\ qrun.errs = <<<<0, qrun.plan.err>>>>
       ELSE /\ { e[1] : e \in { qrun.errs[x] : x \in 1..Len(qrun.errs) } }
                 = { j \in 1..Len(qrun.issued) : qrun.issued[j].out # "" }
            /\ \A x \in 1..Len(qrun.errs) :
                 /\ qrun.errs[x][2] = qrun.issued[qrun.errs[x][1]].out
                 /\ x > 1 => qrun.errs[x - 1][1] < qrun.errs[x][1]

\* the first range query failed, the result check of the second failed, and
\* all four ranges and three instants were queried twice
C19_Witness ==
  /\ queriesDone
  /\ Len(qrun.plan.ranges) = 4 /\ Len(qrun.plan.instants) = 3
  /\ Len(qrun.issued) = 14
  /\ qrun.issued[1].out = "failed to execute query"
  /\ qrun.issued[2].out = "query result check failed"

(***************************************************************************)
(* properties of the histogram generators                                  *)
(***************************************************************************)
generated == gcall.i # 0 /\ gcall.h # pendingHistogram

\* the value the generator of the i-th histogram profile starts from at t,
\* the sign flip of a gauge included
baseValue(i, t) ==
  CASE i = 1 -> generateHistogramIntValue(t, FALSE)
    [] i = 2 -> generateHistogramFloatValue(t, FALSE)
    [] i = 3 -> generateHistogramIntValue(t, TRUE)
    [] i = 4 -> generateHistogramFloatValue(t, TRUE)

\* C20: at every time and for each of the four histogram profiles, the
\* generated histogram's Sum is the profile's generateValue at that time,
\* which is ten times the base value, and its Count is four times the
\* absolute base value, whether the base value is negative or not.
C20_HistogramSumAndCount ==
  generated =>
    LET value == baseValue(gcall.i, gcall.t)
    IN  /\ gcall.h.Sum = generateHistogramValue(gcall.i, gcall.t)
        /\ gcall.h.Sum = value * 10
        /\ gcall.h.Count = Abs(value) * 4

\* an integer gauge histogram generated from a negative value
C20_Witness ==
  /\ generated
  /\ histogramTypeLabels[gcall.i] = "histogram_int_gauge"
  /\ baseValue(gcall.i, gcall.t) < 0
  /\ gcall.h.Sum < 0 /\ gcall.h.Count > 0

\* a float counter histogram generated from a positive value
C20_WitnessPositive ==
  /\ generated
  /\ histogramTypeLabels[gcall.i] = "histogram_float_counter"
  /\ baseValue(gcall.i, gcall.t) > 0
  /\ gcall.h.Sum > 0 /\ gcall.h.Count > 0

(***************************************************************************)
(* properties of compareSampleValues                                       *)
(***************************************************************************)
compared == ccall.done

\* |actual - expected| / delta < delta, multiplied through by delta
withinDelta(actual, expected) ==
  Abs(actual - expected) * DeltaInv < ValueUnit \div DeltaInv

\* the value 1 in value units
One == ValueUnit

C21_WitnessTwoDelta ==
  /\ compared
  /\ ccall.actual = ccall.expected + 2 * (ValueUnit \div DeltaInv)
  /\ ~ccall.equal

(***************************************************************************)
(* properties of the retry middleware                                      *)
(***************************************************************************)
returned == rdo.pc = "done"

\* the number of calls of the next handler made so far
made == Len(rdo.calls)

\* the errors the middleware is meant to retry: a non-HTTP error that is
\* neither an API error nor context.Canceled, or an HTTP 5xx
retryable(err) == err \in {"fail", "http500"}

\* every call made before the last one failed with a retryable error
onlyRetried == \A i \in 1..(made - 1) : retryable(rdo.calls[i].err)

\* what the retries ended on, the cancellation of the context apart: no
\* call was allowed, a success, an error not to be retried, or maxRetries
\* calls made
stoppedByCalls ==
  \/ made = 0 /\ rdo.maxRetries <= 0
  \/ made > 0 /\ ~retryable(rdo.calls[made].err)
  \/ made > 0 /\ made = rdo.maxRetries

\* a 4xx from the first call is returned after that one call
firstClientError ==
  (made > 0 /\ rdo.calls[1].err = "http400") =>
     /\ made = 1
     /\ returned /\ rdo.err = "http400" /\ rdo.resp = 0

\* C22 as stated: the next handler is called again exactly while the
\* previous call failed with a non-HTTP or a 5xx error; Do stops at the
\* first success, the first 4xx or other non-retryable error, or when
\* maxRetries calls have been made, and for nothing else; a 4xx is returned
\* after exactly one call; never more than maxRetries calls.
C22_RetriesWhileRetryable ==
  /\ onlyRetried
  /\ returned => stoppedByCalls
  /\ ~returned => (made = rdo.tries /\ \A i \in 1..made : retryable(rdo.calls[i].err))
  /\ firstClientError
  /\ made <= IF rdo.maxRetries > 0 THEN rdo.maxRetries ELSE 0

\* C22 amended: as C22, and Do also stops, before maxRetries calls and
\* after a retryable failure, when the context is found cancelled at the
\* top of the loop.
C22_RetriesWhileRetryableAndLive ==
  /\ onlyRetried
  /\ returned => (stoppedByCalls \/ rdo.cancelled)
  /\ (returned /\ ~stoppedByCalls) => (rdo.err = ctxErr /\ rdo.resp = 0)
  /\ ~returned => (made = rdo.tries /\ \A i \in 1..made : retryable(rdo.calls[i].err))
  /\ firstClientError
  /\ made <= IF rdo.maxRetries > 0 THEN rdo.maxRetries ELSE 0

\* a retried failure, then a 4xx that ended the retries with a try left
C22_Witness ==
  /\ returned /\ ~rdo.cancelled
  /\ made = 2 /\ made < rdo.maxRetries
  /\ retryable(rdo.calls[1].err)
  /\ rdo.calls[2].err = "http400"

\* maxRetries calls made, every one failing with a retryable error
C22_WitnessExhausted ==
  /\ returned /\ ~rdo.cancelled
  /\ made = rdo.maxRetries /\ made >= 2
  /\ \A i \in 1..made : retryable(rdo.calls[i].err)

\* the first call that succeeded, or 0
firstSuccess ==
  IF \E i \in 1..made : rdo.calls[i].err = ""
  THEN CHOOSE i \in 1..made :
         rdo.calls[i].err = "" /\ \A j \in 1..(i - 1) : rdo.calls[j].err # ""
  ELSE 0

\* C23: when Do has made at least one call and the context is not
\* cancelled, it returns the response of the first successful call with a
\* nil error, or, no call having succeeded, a nil response and the error of
\* the final call made, whatever the errors of the calls before it.
C23_ReturnsFirstSuccessOrFinalError ==
  (returned /\ made > 0 /\ ~rdo.cancelled) =>
     IF firstSuccess # 0
     THEN /\ rdo.err = ""
          /\ rdo.resp = rdo.calls[firstSuccess].resp
          /\ rdo.resp # 0
     ELSE /\ rdo.resp = 0
          /\ rdo.err = rdo.calls[made].err
          /\ rdo.err # ""

\* the tries are exhausted after retryable failures with different errors,
\* and the last one is returned
C23_Witness ==
  /\ returned /\ ~rdo.cancelled
  /\ made = rdo.maxRetries /\ made >= 2
  /\ firstSuccess = 0
  /\ retryable(rdo.calls[made].err)
  /\ rdo.calls[1].err # rdo.calls[made].err
  /\ rdo.err = rdo.calls[made].err

\* a success after a retried failure
C23_WitnessSuccess ==
  /\ returned /\ ~rdo.cancelled
  /\ made >= 2 /\ firstSuccess = made
  /\ rdo.err = "" /\ rdo.resp = made

\* the context was cancelled when Do was entered
cancelledOnEntry ==
  IF made = 0 THEN rdo.cancelled ELSE rdo.calls[1].ctx

\* the last call made cancelled the context and failed with a retryable
\* error
cancelledInLastCall ==
  /\ made > 0
  /\ rdo.calls[made].cancels
  /\ retryable(rdo.calls[made].err)

\* no call of the next handler was made with the context cancelled
neverCalledCancelled ==
  /\ \A i \in 1..made : ~rdo.calls[i].ctx
  /\ \A i \in 1..(made - 1) : ~rdo.calls[i].cancels

\* C24: Do never calls the next handler once the context is cancelled:
\* cancelled on entry, zero calls; cancelled during a call that fails with a
\* retryable error, no further call; and in both cases Do returns the
\* context's error rather than the handler's.
C24_CancelledReturnsContextError ==
  /\ neverCalledCancelled
  /\ cancelledOnEntry => made = 0
  /\ (returned /\ (cancelledOnEntry \/ cancelledInLastCall)) =>
        (rdo.resp = 0 /\ rdo.err = ctxErr)

\* C24 amended: Do never calls the next handler once the context is
\* cancelled; cancelled on entry, it makes zero calls, and cancelled during
\* a call that fails with a retryable error, no further call.  It returns
\* the context's error when a try is left (tries < maxRetries); cancelled
\* during the maxRetries-th call it returns that call's error, and with
\* maxRetries <= 0 it returns a nil error.
C24_CancelledStopsCalls ==
  /\ neverCalledCancelled
  /\ cancelledOnEntry => made = 0
  /\ (returned /\ cancelledOnEntry) =>
        /\ rdo.resp = 0
        /\ rdo.err = IF rdo.maxRetries > 0 THEN ctxErr ELSE ""
  /\ (returned /\ cancelledInLastCall) =>
        /\ rdo.resp = 0
        /\ rdo.err = IF made < rdo.maxRetries THEN ctxErr
                                              ELSE rdo.calls[made].err

\* the first of several allowed calls cancels the context and fails with a
\* plain error: no second call, and the context's error is returned
C24_Witness ==
  /\ returned
  /\ made = 1 /\ rdo.maxRetries > 1
  /\ cancelledInLastCall /\ rdo.calls[1].err = "fail"
  /\ rdo.err = ctxErr

\* the maxRetries-th call cancels the context and fails with a plain
\* error, which is what Do returns
C24_WitnessLastTry ==
  /\ returned
  /\ made = rdo.maxRetries
  /\ cancelledInLastCall /\ rdo.calls[made].err = "fail"
  /\ rdo.err = "fail"

\* C30: for every maxRetries, zero and negative values included, whenever
\* Do returns a nil error the response it returns is the response of a
\* successful call it made to the next handler; Do never returns a nil
\* response with a nil error without having called the handler.
C30_NilErrorIsASuccess ==
  /\ (returned /\ rdo.err = "") =>
        /\ firstSuccess # 0
        /\ rdo.resp = rdo.calls[firstSuccess].resp
  /\ ~(returned /\ rdo.resp = 0 /\ rdo.err = "" /\ made = 0)

(***************************************************************************)
(* properties of the write loop's length                                   *)
(***************************************************************************)
\* the largest number of WriteSeries calls the claim allows a write loop
\* that started from the records start at the time t
maxWrites(start, t) ==
  IF IsZero(start.lastWrittenTimestamp)
  THEN 1
  ELSE (t - start.lastWrittenTimestamp) \div writeInterval

\* C25: whatever the WriteSeries calls return, the write loop of RunInner
\* makes at most floor((now - lastWrittenTimestamp) / writeInterval) calls
\* (one without history), and no timestamp is written twice within one run:
\* the n-th call of a loop is for the n-th timestamp after its start.
C25_WriteLoopBounded ==
  (wloop # noLoop /\ wloop.n > 0) =>
     /\ wloop.n <= maxWrites(wloop.start, now)
     /\ called
     /\ lastCall.ts = nextWriteTimestamp(now, wloop.start)
                        + (wloop.n - 1) * writeInterval

(***************************************************************************)
(* properties of the rate limiter of a run                                 *)
(***************************************************************************)
\* the step is a WriteSeries call of the write loop in progress
writeStep == wloop'.n = wloop.n + 1

\* the step is a WaitN that failed: its error joins the errors of the run
waitFailedStep ==
  cur # 0 /\ <<profile, "context">> \in errs' \ errs

\* C26: every WriteSeries call of a run comes, in the same iteration, after
\* a WaitN that granted NumSeries permits on the one limiter Run created
\* and hands to every profile; when WaitN fails on a cancelled context,
\* RunInner records the error and returns: no write is issued, the records
\* stay as they are and the profile gets no query in that run.
C26_WritesWaitOnSharedLimiter ==
  /\ [](pc \in {"write", "query"} =>
          /\ writeLimiter.limit = NumSeries
          /\ writeLimiter.burst = NumSeries
          /\ called => writeLimiter.waited = NumSeries)
  /\ [][ /\ writeStep =>
              /\ ~ctxDone
              /\ writeLimiter' = WaitN(writeLimiter, NumSeries)
         /\ (cur # 0 /\ cur' # 0) =>
              /\ writeLimiter'.limit = writeLimiter.limit
              /\ writeLimiter'.burst = writeLimiter.burst
              /\ cur' # cur => writeLimiter' = writeLimiter
         /\ (pc = "write" /\ ctxDone /\ pc' # pc) =>
              (waitFailedStep \/ nextWriteTimestamp(now, hist[profile]) > now)
         /\ waitFailedStep =>
              /\ pc = "write" /\ ctxDone
              /\ ~writeStep
              /\ hist' = hist
              /\ cur' # cur
              /\ lastCall' = noCall ]_vars

\* the WaitN of the second profile failed after the first profile wrote
\* with the same limiter
C26_Witness ==
  /\ Len(enabled) = 2
  /\ pc = "idle"
  /\ <<enabled[2], "context">> \in runErr
  /\ <<enabled[1], "context">> \notin runErr
  /\ hist[enabled[1]].lastWrittenTimestamp = alignTimestampToInterval(now, writeInterval)

\* the second profile of a run has written, on the limiter the first one
\* used
C26_WitnessSecondProfile ==
  /\ Len(enabled) = 2 /\ cur = 2
  /\ called /\ lastCall.p = enabled[2]
  /\ hist[enabled[1]].lastWrittenTimestamp = alignTimestampToInterval(now, writeInterval)
  /\ writeLimiter.waited = NumSeries

(***************************************************************************)
(* properties of the alignment                                             *)
(***************************************************************************)
\* the three times of the records are multiples of the interval
alignedRecords(r, interval) ==
  /\ r.lastWrittenTimestamp % interval = 0
  /\ r.queryMinTime % interval = 0
  /\ r.queryMaxTime % interval = 0

\* records kept in seconds, in the milliseconds of the planner
inMillis(r) ==
  [lastWrittenTimestamp |-> r.lastWrittenTimestamp * Second,
   queryMinTime |-> r.queryMinTime * Second,
   queryMaxTime |-> r.queryMaxTime * Second]

\* the call c made for records r has aligned times inside the queryable
\* range of r
alignedCall(r, c) ==
  /\ c.start % (writeInterval * Second) = 0
  /\ c.end % (writeInterval * Second) = 0
  /\ r.queryMinTime <= c.start /\ c.start <= c.end /\ c.end <= r.queryMaxTime

\* the calls the query loops of RunInner make to the client at time t (in
\* milliseconds) for the records r, the draws of randTime being r1 and r2
callsOf(t, r, maxQueryAge, r1, r2) ==
  LET jobs == queryJobs(getQueryTimeRanges(t, r, maxQueryAge, r1, r2))
  IN  { clientCall(r, jobs[i]) : i \in 1..Len(jobs) }

\* C27: every non-zero lastWrittenTimestamp, queryMinTime and queryMaxTime
\* is a multiple of writeInterval, and so every range or instant query the
\* run phase issues has aligned start, end and timestamp inside
\* [queryMinTime, queryMaxTime].
C27_AlignedHistoryAndQueries ==
  /\ \A p \in Profiles : alignedRecords(hist[p], writeInterval)
  /\ pc = "query" =>
       \A r1 \in PlanDraws, r2 \in PlanDraws :
         \A c \in callsOf(now * Second, inMillis(hist[profile]),
                          MaxQueryAge * Second, r1, r2) :
           ~c.skip => alignedCall(inMillis(hist[profile]), c)
  /\ \A i \in 1..Len(qrun.issued) :
       alignedCall(qrun.records, qrun.issued[i].call)

\* a run at a time off the write interval is about to issue a range query
\* over more than one interval of a history recovered and written
C27_Witness ==
  /\ pc = "query"
  /\ now % writeInterval # 0
  /\ recovered[profile] # {}
  /\ hist[profile].queryMaxTime = alignTimestampToInterval(now, writeInterval)
  /\ \E c \in callsOf(now * Second, inMillis(hist[profile]),
                       MaxQueryAge * Second, 1, 1) :
       c.kind = "range" /\ ~c.skip /\ c.start < c.end

(***************************************************************************)
(* properties of getQueryStep                                              *)
(***************************************************************************)
\* C28: for start <= end and alignInterval > 0, getQueryStep returns a
\* positive multiple of alignInterval: alignInterval itself when
\* (end - start) / alignInterval <= 1000, and otherwise a step for which
\* (end - start) / step does not exceed 1000.
C28_StepIsBoundedMultiple ==
  (scall.done /\ scall.start <= scall.end /\ scall.alignInterval > 0) =>
    LET d == scall.end - scall.start
        ai == scall.alignInterval
    IN  /\ scall.step > 0
        /\ scall.step % ai = 0
        /\ d \div ai <= 1000 => scall.step = ai
        /\ d \div ai > 1000 => d \div scall.step <= 1000

\* a range of more than a thousand intervals got a longer step
C28_Witness ==
  /\ scall.done
  /\ (scall.end - scall.start) \div scall.alignInterval > 1000
  /\ scall.step > scall.alignInterval
  /\ scall.alignInterval = writeInterval * Second

\* a range of exactly a thousand intervals got the interval as its step
C28_WitnessThousand ==
  /\ scall.done
  /\ (scall.end - scall.start) \div scall.alignInterval = 1000
  /\ scall.step = scall.alignInterval

(***************************************************************************)
(* properties of the queryable range and the write cursor                  *)
(***************************************************************************)
\* C29: in every state of a profile's records, queryMinTime is zero exactly
\* when queryMaxTime is zero, and a non-zero queryMaxTime equals
\* lastWrittenTimestamp: the queryable range ends at the write cursor.
C29_RangeEndsAtCursor ==
  \A p \in Profiles :
    /\ IsZero(hist[p].queryMinTime) <=> IsZero(hist[p].queryMaxTime)
    /\ ~IsZero(hist[p].queryMaxTime) =>
         hist[p].queryMaxTime = hist[p].lastWrittenTimestamp

\* a range that started again with a successful write after a 4xx had
\* emptied a recovered one
C29_Witness ==
  \E p \in Profiles :
    /\ recovered[p] # {} /\ rejected[p] # 0
    /\ hist[p].queryMinTime > rejected[p]
    /\ hist[p].queryMaxTime = hist[p].lastWrittenTimestamp

\* a write cursor with no queryable range: the last write got a 4xx
C29_WitnessEmptied ==
  \E p \in Profiles :
    /\ rejected[p] # 0
    /\ hist[p].lastWrittenTimestamp = rejected[p]
    /\ IsZero(hist[p].queryMinTime) /\ IsZero(hist[p].queryMaxTime)

====
